---------------------------- MODULE Spec2Model ----------------------------
(***************************************************************************)
(* A model of the MemoryPlayController client library (famish99/direttampd) *)
(*                                                                         *)
(*   - the upload engine mpc_upload_audio with its ack wait rev_check      *)
(*     (lib_memory_play_controller.cpp),                                   *)
(*   - the sources it reads: WAV::read for RIFF/PCM and DSDIFF files and    *)
(*     the DSD reassembler WAV::ReadRest (lib_wav.cpp),                     *)
(*   - the persistent ControlSession with receiveMessages                  *)
(*     (lib_memory_play_controller.cpp).                                   *)
(*                                                                         *)
(* The transport (ACQUA::TCPV6Client) is not part of the repository: every *)
(* send, receive and wait takes each outcome its interface allows.  The    *)
(* host is unconstrained: at every wakeup it delivers any batch of frames  *)
(* of a small alphabet.                                                    *)
(*                                                                         *)
(* Audio is scaled down: one second of audio is get1secSize = 4 bytes, so  *)
(* that a file of a few bytes spans several one-second chunks.  A byte is  *)
(* a pair <<origin, index>>, which keeps every byte distinguishable:       *)
(*   <<0, k>>   byte k of the FormatID,                                    *)
(*   <<i, k>>   byte k of the audio payload of source i (i >= 1),          *)
(*   <<-1, k>>  byte k of a 32-bit word emitted by ReadRest::full,         *)
(*   <<-2, 0>>  a byte of a read buffer the reassembler never wrote,       *)
(*   <<-3, k>>  byte k of a word produced by ReadRest::final.              *)
(***************************************************************************)
EXTENDS Integers, Sequences, FiniteSets, TLC

VARIABLES
    \* ---- mpc_upload_audio ----
    wavformat,      \* the format's family shared by all sources: "PCM" or "DSD"
    loop_mode,      \* the loop_mode argument
    wavs,           \* wav_handles: the WAV handles, in the given order
    i,              \* index of the source being processed (1-based)
    buf,            \* Buffer buf: the one-second accumulation buffer
    tCount,         \* size_t tCount (the spec's transferCount)
    rest,           \* WAV::ReadRest rest
    pc,             \* position of the upload in mpc_upload_audio
    ackRet,         \* where the upload continues when rev_check returns true
    result,         \* return value of mpc_upload_audio ("none" while running)
    cause,          \* history: what made mpc_upload_audio return early
    sent,           \* history: every frame handed to client.send, in order
    ackSeen,        \* history: a matching ack was received since the last send
    ackOther,       \* history: frames holding no matching ack were received
                    \* since the last send
    ackStarted,     \* history: number of rev_check calls begun
    ackDone,        \* history: number of rev_check calls that returned true
    failure,        \* history: the transport or I/O failures that happened
    \* ---- ControlSession ----
    connected,      \* ControlSession::connected
    spc,            \* "idle", or "drain" while receiveMessages runs
    cmd,            \* the command in progress or last finished
    sresult,        \* return value of the last finished command
    ssent,          \* history: the headers the command in progress or last
                    \* finished handed to client.send
    sinceRecv,      \* Clock::now() - lastrecv, in milliseconds
    timeoutMs,      \* timeoutMs of the running receiveMessages
    status,         \* *status of the get_play_status in progress or last finished
    time_seconds,   \* *time_seconds of such a get_current_time
    tags,           \* tags of such a get_tag_list
    connFailed,     \* history: the last finished command failed on the connection
    prevConnFailed, \* history: connFailed as it was when the last command began
    badKind,        \* history: the command in progress or last finished came
                    \* upon a complete frame of an unknown kind in its replies
    carg,           \* history: the argument of that command (0 if it has none)
    heard,          \* history: the headers the host's Command frames brought
                    \* to that command's frame loop, in arrival order
    drainCode,      \* history: what that command's receiveMessages returned,
                    \* or "none"
    sinceHeader,    \* history: the milliseconds since the later of the start of
                    \* receiveMessages and the last header in heard
    \* ---- the frame codec: a peer, the bytes in flight, a ReceiveMessage ----
    txq,            \* history: the frames the peer sent, in order
    wire,           \* the bytes sent and not yet received
    rbuf,           \* the bytes of the ReceiveMessage buffer
    rtype,          \* ReceiveMessage::type
    rlen,           \* ReceiveMessage::frameLength
    rok,            \* what checkFrame returned since rbuf last changed, or "none"
    got,            \* history: the frames taken off rbuf: kind and frame payload
    \* ---- one ReceiveMessageFrames built from a frame payload ----
    pdata,          \* the frame payload handed to the constructor
    plist,          \* the list of pairs the constructor built
    ppc,            \* "idle", "ready" (payload chosen) or "done" (constructed)
    \* ---- one WAV::ReadRest with its registers, driven push by push ----
    rr,             \* the ReadRest: channel_count_, mute (format_.getMuteByte()),
                    \* bit_count_ and rest_, each register 64 bits, highest first
    pushed,         \* history: per channel, the bits pushed so far in push order
    pushes,         \* history: the number of pushes so far
    words,          \* history: the outputs of the calls of full() that returned
                    \* true, each a 32-bit word per channel
    fin,            \* the buffer final() left, as words per channel, or "none"
    rpc,            \* "idle", "ready", "pushed" (full() is due) or "done"
    \* ---- DSF sources read one after the other into the ReadRest rr ----
    dsf,            \* the WAV handle of the DSF source being read
    dcount,         \* history: the number of sources opened so far
    dlog,           \* history: the pushes readDSF made for this handle, each
                    \* [bits, input (the bytes of the file), got (the bits that
                    \* went into the registers)]
    dres,           \* the outcome of the last read: "none", "ok", "false",
                    \* "overrun" (full() wrote past the buffer) or "hang"
    \* ---- a RIFF or AIFF source opened and read ----
    pcm,            \* the WAV handle
    pflag,          \* history: the convert_to_2ch_32bit argument of open
    pdecl,          \* history: the size the data chunk declares
    pconsumed,      \* history: the source bytes read from the data chunk
    preturned,      \* history: the bytes the reads returned
    \* ---- request commands and the replies in the socket ----
    qsock,          \* the frames the host sent that no receive has read yet;
                    \* req (history) is the request a frame replies to
    qreq,           \* history: the number of requests sent
    qhost,          \* history: the request the host is replying to
    qreplies,       \* history: the number of frames the host sent
    qcmd,           \* the request command in progress or last finished
    qpc,            \* "idle", or "drain" while its receiveMessages runs
    qout,           \* its outputs [status, time_seconds, tags]
    qres,           \* what it returned
    qsince,         \* Clock::now() - lastrecv, in milliseconds
    qused,          \* history: the requests whose replies brought the
                    \* headers handed to its handler
    \* ---- a send message built by a sequence of operations ----
    msg,            \* the SendMessage: baseSize, header (the 9 bytes of its
                    \* PayloadHeader), frameHeader (the baseSize bytes behind
                    \* them) and size (the number of payload bytes)
    mkind,          \* history: the kind set at construction
    mops,           \* history: the number of operations on it
    \* ---- histories and sources of the later sections ----
    readlog,        \* history: the bytes the reads of the sources returned to
                    \* mpc_upload_audio, in order
    kwav,          \* the handle of a RIFF file of several chunks
    kfile,         \* history: the chunks of the file behind its fmt chunk
    klog,          \* history: the places of the file the bytes returned were read from
    klast,         \* history: the last read, its buffer and what it met
    dff,           \* dff_state_ of a DSDIFF handle: chunk_size, current_size, read_reset
    dpc,           \* the place of the walk: "top" and "prop" (the heads of the two loops of readDFFChunk), "data" (inside the DSD chunk), "end", "failed", "idle"
    dwrap,         \* history: the first subtraction that wrapped below 0, "none" if none did
    dsteps,        \* history: the number of steps of the walk
    uinfo,         \* the bytes of an ID3v2.3 text frame with encoding 1
    u8out,         \* the UTF-8 string utf16utf8 made of them, <<-1>> before the call
    ofile,         \* a file given to WAV::open: container, title and track of its metadata, and the stem of its name
    oinfo,         \* title() and index() after the open, NotOpened before
    plast           \* history: the last read: T (the target asked for),
                    \* before (pcm_data_remaining_ when the bytes were read),
                    \* in (the source bytes read), out (the buffer), ok

uvars == <<wavformat, loop_mode, wavs, i, buf, tCount, rest, pc, ackRet, result, cause,
           sent, ackSeen, ackOther, ackStarted, ackDone, failure, readlog>>
svars == <<connected, spc, cmd, sresult, ssent, sinceRecv,
           timeoutMs, status, time_seconds, tags, connFailed, prevConnFailed,
           badKind, carg, heard, drainCode, sinceHeader>>
cvars == <<txq, wire, rbuf, rtype, rlen, rok, got>>
dvars == <<rr, pushed, pushes, words, fin, rpc>>
fvars == <<dsf, dcount, dlog, dres>>
nvars == <<pcm, pflag, pdecl, pconsumed, preturned, plast>>
qvars == <<qsock, qreq, qhost, qreplies, qcmd, qpc, qout, qres, qsince, qused>>
mvars == <<msg, mkind, mops>>
kvars == <<kwav, kfile, klog, klast>>
tvars == <<dff, dpc, dwrap, dsteps>>
ovars == <<uinfo, u8out, ofile, oinfo>>
evars == <<qvars, mvars, kvars, tvars, ovars>>
pvars == <<pdata, plist, ppc, dvars, fvars, nvars, evars>>
vars == <<uvars, svars, cvars, pvars>>

-----------------------------------------------------------------------------
(* Bounds of the model *)

\* at most this many sources in one upload
MaxSources == 2
\* the sources of one upload carry at most this many 2-byte units of audio
\* together
MaxUnits == 3
\* the host delivers at most this many frames in one receive
MaxBatch == 2
\* get_tag_list collects at most this many tags
MaxTags == 2
\* the host sends at most this many headers in reply to one command
MaxHeard == 3
\* at most this many kinds of transport or file failure happen in one upload
MaxFaults == 1
\* a peer sends at most this many frames to one ReceiveMessage
MaxFrames == 2
\* a Data or Tag frame of the peer carries at most this many bytes
MaxPayload == 2
\* at most this many pushes go into one ReadRest
MaxPushes == 5
\* at most this many request commands are issued on one session
MaxRequests == 2
\* the host sends at most this many reply frames
MaxReplies == 3
\* at most this many operations are made on one send message
MaxMsgOps == 4
\* DSF sources of up to this many samples per channel, in blocks of up to
\* this many bytes per channel
MaxDsfSamples == 40
MaxDsfBlock == 3
\* at most this many bits are in the ReadRest when a source is opened
MaxCarried == 7
\* text frames of up to this many UTF-16 code units
MaxUnits16 == 3
\* the track numbers of the metadata: 0 (none) to this
MaxTrack == 1
\* DSDIFF forms that declare up to this many bytes, chunks that declare up
\* to this many, walks of up to this many passes
MaxForm == 48
MaxWalkSize == 8
MaxWalkSteps == 6
\* RIFF files of up to this many chunks of up to this many bytes, read with
\* targets of up to this many bytes
MaxChunks == 3
MaxChunkBytes == 2
MaxChunkTarget == 2
\* at most this many DSF sources share one ReadRest
MaxDsfSources == 6
\* the data chunk of a RIFF or AIFF source declares at most this many bytes
MaxPcmBytes == 7
\* a read of such a source asks for at most this many bytes
MaxPcmTarget == 16
\* the text behind the sub-header of a Command frame has at most this many
\* characters
MaxText == 5

-----------------------------------------------------------------------------
(* Error codes, lib_memory_play_controller.h *)

MPC_SUCCESS == "MPC_SUCCESS"
MPC_ERROR_INVALID_PARAM == "MPC_ERROR_INVALID_PARAM"
MPC_ERROR_CONNECTION == "MPC_ERROR_CONNECTION"
MPC_ERROR_TIMEOUT == "MPC_ERROR_TIMEOUT"

MPC_STATUS_DISCONNECTED == "MPC_STATUS_DISCONNECTED"
MPC_STATUS_PLAYING == "MPC_STATUS_PLAYING"
MPC_STATUS_PAUSED == "MPC_STATUS_PAUSED"

-----------------------------------------------------------------------------
(* Text.  A string the code parses is a sequence of one-character strings. *)

Digits == <<"0", "1", "2", "3", "4", "5", "6", "7", "8", "9">>

IsDigit(c) == \E d \in 1..10 : Digits[d] = c

DigitVal(c) == (CHOOSE d \in 1..10 : Digits[d] = c) - 1

IsSpace(c) == c \in {" ", "\t", "\n", "\r"}

\* operator<< of a non-negative integer: its decimal digits
RECURSIVE Dec(_)
Dec(n) == IF n < 10 THEN <<Digits[n + 1]>> ELSE Dec(n \div 10) \o <<Digits[(n % 10) + 1]>>

RECURSIVE SkipSpace(_)
SkipSpace(s) == IF s # <<>> /\ IsSpace(Head(s)) THEN SkipSpace(Tail(s)) ELSE s

RECURSIVE DigitsVal(_, _)
DigitsVal(s, acc) ==
    IF s # <<>> /\ IsDigit(Head(s))
    THEN DigitsVal(Tail(s), acc * 10 + DigitVal(Head(s)))
    ELSE acc

\* atoll: leading white space, an optional sign, then digits up to the first
\* character that is no digit; 0 when there is no digit
atoll(s) ==
    LET t == SkipSpace(s) IN
    IF t # <<>> /\ Head(t) = "-" THEN 0 - DigitsVal(Tail(t), 0)
    ELSE IF t # <<>> /\ Head(t) = "+" THEN DigitsVal(Tail(t), 0)
    ELSE DigitsVal(t, 0)

-----------------------------------------------------------------------------
(* Received frames, lib_memory_play_client.hpp.  A received frame is the   *)
(* record of what its bytes hold: type is the header's kind byte, complete *)
(* says that all 9 + length bytes (and for kind 1 the 6-byte sub-header)   *)
(* have arrived, headers are the key=value pairs ReceiveMessageFrames      *)
(* yields for its payload.  rcvBuf is the sequence of frames in the buffer.*)

\* ReceiveMessage::checkFrame
checkFrame(rcvBuf) ==
    /\ rcvBuf # <<>>
    /\ Head(rcvBuf).complete
    /\ Head(rcvBuf).type \in {0, 1, 2}

\* ReceiveMessage::getType
getType(rcvBuf) == Head(rcvBuf).type

\* ReceiveMessageFrames(rcvBuf.getFramePayload())
ReceiveMessageFrames(rcvBuf) == Head(rcvBuf).headers

\* ReceiveMessage::next
next(rcvBuf) == Tail(rcvBuf)

-----------------------------------------------------------------------------
(* The scaled format.  All sources of one upload share it (FormatConfigure). *)

\* FormatConfigure::getChannel
getChannel == 1

\* FormatConfigure::get1secSize, scaled: 2 frames of 2 bytes for PCM, one
\* 32-bit DSD word for the 1-channel DSD format
get1secSize == 4

\* the 4 bytes of FormatID indef
FormatIDBytes == <<<<0, 0>>, <<0, 1>>, <<0, 2>>, <<0, 3>>>>

MinFirst(a, b) == a
Min(a, b) == IF a < b THEN a ELSE b

\* the width of the unsigned counters of DFFState, scaled from 2^64
UIntMod == 65536

\* unsigned subtraction a -= b
USub(a, b) == (a - b) % UIntMod

-----------------------------------------------------------------------------
(* WAV::ReadRest, the DSD reassembler: the bit count of its shift registers *)

\* ReadRest::ReadRest
ReadRestInit == [channel_count_ |-> getChannel, bit_count_ |-> 0]

\* ReadRest::push8(input, bits)
push8(r, bits) == [r EXCEPT !.bit_count_ = r.bit_count_ + bits]

\* ReadRest::full: TRUE and 32 bits taken when at least 32 bits are held
full(r) ==
    IF r.bit_count_ < 32
    THEN [rest |-> r, emitted |-> FALSE]
    ELSE [rest |-> [r EXCEPT !.bit_count_ = r.bit_count_ - 32], emitted |-> TRUE]

\* ReadRest::final: the buffer it leaves; the registers are not changed
final(r) ==
    IF r.bit_count_ = 0
    THEN <<>>
    ELSE [k \in 1..(4 * r.channel_count_) |-> <<-3, (k - 1) % 4>>]

-----------------------------------------------------------------------------
(* WAV, lib_wav.cpp.  A handle is a record:                                *)
(*   mode_, title_, end_of_stream_, pcm_data_remaining_, dff_state_ as in  *)
(*   the class; fail is file_.fail(); file is the sequence of chunks that  *)
(*   follow the file cursor, each [id, size, sub] (sub: the sub-chunks of  *)
(*   a PROP chunk); src and pos name the next audio byte of the file.      *)

Chunk(id, size) == [id |-> id, size |-> size, sub |-> <<>>]

\* WAV::is_empty
is_empty(w) == w.end_of_stream_ \/ w.fail

\* readPCM: "Read until 'data' chunk".  At the end of the file the 4-byte read
\* fails, which sets the stream's fail bit.
RECURSIVE ScanPCM(_, _)
ScanPCM(file, remaining) ==
    IF file = <<>>
    THEN [found |-> FALSE, file |-> <<>>, remaining |-> remaining, fail |-> TRUE]
    ELSE IF Head(file).id = "data"
    THEN [found |-> TRUE, file |-> Tail(file), remaining |-> Head(file).size,
          fail |-> FALSE]
    ELSE ScanPCM(Tail(file), Head(file).size)

\* a scan that is made for the first data chunk of a file only
FindDataOnce(w) ==
    IF w.pcm_data_remaining_ # 0
    THEN [found |-> TRUE, file |-> w.file, remaining |-> w.pcm_data_remaining_,
          fail |-> w.fail]
    ELSE IF w.pos > 0
    THEN [found |-> FALSE, file |-> w.file, remaining |-> 0, fail |-> w.fail]
    ELSE ScanPCM(w.file, w.pcm_data_remaining_)

\* "if (pcm_data_remaining_ == 0)": the scan is made when the data chunk at
\* hand has no bytes left
FindData(w) ==
    IF w.pcm_data_remaining_ = 0
    THEN ScanPCM(w.file, w.pcm_data_remaining_)
    ELSE [found |-> TRUE, file |-> w.file, remaining |-> w.pcm_data_remaining_,
          fail |-> w.fail]

\* WAV::readPCM without normalisation (convert_to_2ch_32bit_ = false); ioOk is
\* the outcome of file_.read of the samples
readPCM(w, target_bytes, ioOk) ==
    LET scan == FindData(w)
        t == Min(target_bytes, scan.remaining)
        w1 == [w EXCEPT !.file = scan.file, !.pcm_data_remaining_ = scan.remaining,
                        !.fail = scan.fail]
    IN  IF ~scan.found
        THEN [wav |-> [w1 EXCEPT !.end_of_stream_ = TRUE],
              buffer |-> <<>>, ok |-> TRUE, overrun |-> FALSE]
        ELSE IF ~ioOk /\ t > 0
        THEN [wav |-> [w1 EXCEPT !.fail = TRUE],
              buffer |-> <<>>, ok |-> FALSE, overrun |-> FALSE]
        ELSE [wav |-> [w1 EXCEPT !.pcm_data_remaining_ = scan.remaining - t,
                                 !.pos = w.pos + t],
              buffer |-> [k \in 1..t |-> <<w.src, w.pos + k - 1>>],
              ok |-> TRUE, overrun |-> FALSE]

\* the loop of read_func in readDFF: n columns pushed, full() tried after each
RECURSIVE PushColumns(_, _, _)
PushColumns(n, r, emits) ==
    IF n = 0
    THEN [rest |-> r, emits |-> emits]
    ELSE LET f == full(push8(r, 8))
         IN  PushColumns(n - 1, f.rest, IF f.emitted THEN emits + 1 ELSE emits)

\* the lambda read_func of WAV::readDFF, called with len bytes left in the DSD
\* chunk.  buffer is resized to target_bytes and written only where full()
\* emitted; overrun says that full() wrote past the end of the buffer.
read_func(len, target_bytes, r, ioOk) ==
    IF len = 0
    THEN [ok |-> TRUE, buffer |-> <<>>, len |-> len, rest |-> r,
          overrun |-> FALSE, iofail |-> FALSE]
    ELSE IF (len % getChannel) # 0 \/ (target_bytes % (getChannel * 4)) # 0
    THEN [ok |-> FALSE, buffer |-> <<>>, len |-> len, rest |-> r,
          overrun |-> FALSE, iofail |-> FALSE]
    ELSE LET t == Min(len, target_bytes)
             p == PushColumns(t \div getChannel, r, 0)
             written == 4 * getChannel * p.emits
         IN  [ok |-> TRUE,
              buffer |-> [k \in 1..t |->
                             IF k <= written THEN <<-1, (k - 1) % 4>> ELSE <<-2, 0>>],
              len |-> len - t, rest |-> p.rest,
              overrun |-> written > t, iofail |-> ~ioOk]

\* WAV::processDFF
processDFF(w, target_bytes, r, ioOk) ==
    LET original == w.dff_state_.read_reset
        f == read_func(original, target_bytes, r, ioOk)
        used == original - f.len
    IN  IF ~f.ok
        THEN [wav |-> w, buffer |-> <<>>, ok |-> FALSE, rest |-> r, overrun |-> FALSE]
        ELSE [wav |-> [w EXCEPT !.dff_state_.read_reset = f.len,
                                !.dff_state_.current_size =
                                    USub(w.dff_state_.current_size, used),
                                !.dff_state_.chunk_size =
                                    USub(w.dff_state_.chunk_size, used),
                                !.pos = w.pos + used,
                                !.fail = w.fail \/ f.iofail],
              buffer |-> f.buffer, ok |-> TRUE, rest |-> f.rest,
              overrun |-> f.overrun]

\* the walk over the sub-chunks of a PROP chunk in readDFFChunk (the model's
\* PROP chunks are filled exactly by their sub-chunks)
RECURSIVE WalkPROP(_, _, _)
WalkPROP(sub, chunk_size, current_size) ==
    IF ~(current_size > 0 /\ sub # <<>>)
    THEN [ok |-> TRUE, chunk_size |-> chunk_size, current_size |-> current_size,
          fail |-> FALSE]
    ELSE LET cs1 == USub(chunk_size, 4)
             cu1 == USub(current_size, 4)
             size == Head(sub).size
             cs2 == USub(cs1, 8)
             cu2 == USub(cu1, 8)
             fixed == IF Head(sub).id = "FS  " THEN 4
                      ELSE IF Head(sub).id = "CHNL" THEN 2 ELSE 0
         IN  IF cs1 < 8 \/ cu1 < 8 \/ cu2 < size \/ size < fixed
             THEN [ok |-> FALSE, chunk_size |-> cs1, current_size |-> cu1,
                   fail |-> FALSE]
             ELSE WalkPROP(Tail(sub), USub(cs2, size), USub(cu2, size))

\* the chunk walk of WAV::readDFFChunk, entered with read_reset = 0
RECURSIVE WalkDFF(_, _, _, _)
WalkDFF(w, target_bytes, r, ioOk) ==
    LET bad(x) == [wav |-> x, buffer |-> <<>>, ok |-> FALSE, rest |-> r,
                   overrun |-> FALSE]
        skip(x) == WalkDFF([x EXCEPT !.file = Tail(w.file),
                                     !.dff_state_.chunk_size =
                                         USub(x.dff_state_.chunk_size,
                                              x.dff_state_.current_size)],
                           target_bytes, r, ioOk)
    IN
    IF ~(w.dff_state_.chunk_size > 0 /\ w.file # <<>>)
    THEN \* the loop ends; read_func is called with len = 0 and clears the buffer
         [wav |-> [w EXCEPT !.dff_state_.current_size = 0,
                            !.fail = w.fail \/ w.dff_state_.chunk_size > 0],
          buffer |-> <<>>, ok |-> TRUE, rest |-> r, overrun |-> FALSE]
    ELSE LET c == Head(w.file)
             cs1 == USub(w.dff_state_.chunk_size, 4)
             cs2 == USub(cs1, 8)
             w1 == [w EXCEPT !.dff_state_.chunk_size = cs1]
             w2 == [w EXCEPT !.dff_state_.chunk_size = cs2,
                             !.dff_state_.current_size = c.size]
         IN  IF cs1 < 8 THEN bad(w1)
             ELSE IF cs2 < c.size THEN bad(w2)
             ELSE IF c.id = "FVER"
             THEN IF c.size < 4 THEN bad(w2)
                  ELSE skip([w2 EXCEPT !.dff_state_.current_size = USub(c.size, 4),
                                       !.dff_state_.chunk_size = USub(cs2, 4)])
             ELSE IF c.id = "PROP"
             THEN IF c.size < 4 THEN bad(w2)
                  ELSE LET p == WalkPROP(c.sub, USub(cs2, 4), USub(c.size, 4))
                           w3 == [w2 EXCEPT !.dff_state_.chunk_size = p.chunk_size,
                                            !.dff_state_.current_size = p.current_size,
                                            !.fail = w.fail \/ p.fail]
                       IN  IF ~p.ok THEN bad(w3) ELSE skip(w3)
             ELSE IF c.id = "DSD "
             THEN LET w3 == [w2 EXCEPT !.dff_state_.read_reset = c.size,
                                       !.file = Tail(w.file)]
                  IN  IF c.size # 0
                      THEN processDFF(w3, target_bytes, r, ioOk)
                      ELSE skip(w2)
             ELSE skip(w2)

\* WAV::readDFFChunk with the read_func of WAV::readDFF
readDFFChunk(w, target_bytes, r, ioOk) ==
    IF w.dff_state_.read_reset # 0
    THEN processDFF(w, target_bytes, r, ioOk)
    ELSE WalkDFF(w, target_bytes, r, ioOk)

\* WAV::readDFF
readDFF(w, target_bytes, r, ioOk) == readDFFChunk(w, target_bytes, r, ioOk)

\* WAV::read: the dispatch on mode_
WAVread(w, target_bytes, r, ioOk) ==
    IF w.mode_ = "PCM"
    THEN readPCM(w, target_bytes, ioOk) @@ [rest |-> r]
    ELSE IF w.mode_ = "DFF"
    THEN readDFF(w, target_bytes, r, ioOk)
    ELSE [wav |-> w, buffer |-> <<>>, ok |-> FALSE, rest |-> r, overrun |-> FALSE]

-----------------------------------------------------------------------------
(* The files of the model *)

\* a RIFF file after its fmt chunk: a LIST chunk, then a data chunk of u units
PCMFile(u) == <<Chunk("LIST", 2), Chunk("data", 2 * u)>>

\* a DSDIFF file after its form type: FVER, PROP with FS and CHNL, then a DSD
\* chunk of u units
DFFFile(u) ==
    <<Chunk("FVER", 4),
      [id |-> "PROP", size |-> 38, sub |-> <<Chunk("FS  ", 4), Chunk("CHNL", 6)>>],
      Chunk("DSD ", 2 * u)>>

RECURSIVE FileBytes(_)
FileBytes(file) ==
    IF file = <<>> THEN 0 ELSE 12 + Head(file).size + FileBytes(Tail(file))

TitleOf(k) == "Title" \o ToString(k)

\* the handle WAV::open leaves for source k
OpenWAV(family, k, u) ==
    [mode_ |-> IF family = "PCM" THEN "PCM" ELSE "DFF",
     src |-> k, pos |-> 0, title_ |-> TitleOf(k),
     end_of_stream_ |-> FALSE, fail |-> FALSE,
     file |-> IF family = "PCM" THEN PCMFile(u) ELSE DFFFile(u),
     pcm_data_remaining_ |-> 0,
     dff_state_ |-> [chunk_size |-> IF family = "PCM" THEN 0
                                    ELSE FileBytes(DFFFile(u)),
                     current_size |-> 0, read_reset |-> 0]]

-----------------------------------------------------------------------------
(* The host.  A header is [key, value], the value a sequence of characters. *)

Hdr(k, v) == [key |-> k, value |-> v]

CmdFrame(hs) == [type |-> 1, complete |-> TRUE, headers |-> hs]

\* the frames the host sends while the upload counts t: an ack for t, an
\* ack whose value parses to t (white space before it, a letter after it), a
\* frame with another key holding t and an ack for t + 1, a Data frame, a
\* frame of an unknown kind and a Command frame that has not fully arrived
UploadHostFrames(t) ==
    {CmdFrame(<<Hdr("DataStack", Dec(t))>>),
     CmdFrame(<<Hdr("DataTag", <<" ">> \o Dec(t) \o <<"x">>)>>),
     CmdFrame(<<Hdr("Status", Dec(t)), Hdr("DataTag", Dec(t + 1))>>),
     [type |-> 0, complete |-> TRUE, headers |-> <<>>],
     [type |-> 3, complete |-> TRUE, headers |-> <<Hdr("DataStack", Dec(t))>>],
     [type |-> 1, complete |-> FALSE, headers |-> <<Hdr("DataStack", Dec(t))>>]}

\* the sequences of at most n elements of S
RECURSIVE SeqsUpTo(_, _)
SeqsUpTo(S, n) ==
    IF n = 0 THEN {<<>>}
    ELSE LET shorter == SeqsUpTo(S, n - 1)
         IN  shorter \cup {Append(q, x) : q \in shorter, x \in S}

-----------------------------------------------------------------------------
(* mpc_upload_audio, lib_memory_play_controller.cpp *)

\* a rev_check that accepts an ack for any chunk
AckMatchesAnyValue(h, tcount) == h.key = "DataStack" \/ h.key = "DataTag"

\* a rev_check that accepts the count under any key
AckMatchesAnyKey(h, tcount) == tcount = atoll(h.value)

\* the test of one header in rev_check
AckMatches(h, tcount) ==
    /\ h.key = "DataStack" \/ h.key = "DataTag"
    /\ tcount = atoll(h.value)

\* the frame loop of rev_check over one received buffer: TRUE when a header
\* of a Command frame matches before checkFrame fails
RECURSIVE rev_scan(_, _)
rev_scan(rcvBuf, tcount) ==
    IF ~checkFrame(rcvBuf) THEN FALSE
    ELSE IF /\ getType(rcvBuf) = 1
            /\ \E k \in DOMAIN ReceiveMessageFrames(rcvBuf) :
                   AckMatches(ReceiveMessageFrames(rcvBuf)[k], tcount)
    THEN TRUE
    ELSE rev_scan(next(rcvBuf), tcount)

\* a failed rev_check reported as a transport failure
AckFailCodeConnection == MPC_ERROR_CONNECTION

\* what mpc_upload_audio returns when rev_check returned false
AckFailCode == MPC_ERROR_TIMEOUT

\* what mpc_upload_audio returns when client.send returned false
SendFailCode == MPC_ERROR_CONNECTION

\* the sentinel titles of the LOOP and QUIT tags
LoopTag == "@@Diretta-TAG-LOOP@@"
QuitTag == "@@Diretta-TAG-QUIT@@"

\* ++tCount after a Data chunk was sent
CountAfterData(t) == t + 1

\* a Tag that takes a number of its own
CountAfterTagCounted(t) == t + 1

\* a Tag leaves tCount as it is
CountAfterTag(t) == t

\* the record of a frame handed to client.send: number is the number of a
\* Data chunk (0 for the announcement and for a Tag), count is tCount once
\* the statements that follow the send have run, acked, started and done are
\* the histories as they were when the frame was sent
Frame(type, role, data, text, ok, count) ==
    [type |-> type, role |-> role, src |-> IF role \in {"data", "title"} THEN i ELSE 0,
     data |-> data, text |-> text, ok |-> ok,
     number |-> IF role \in {"data", "tail"} THEN count ELSE 0,
     count |-> IF ok THEN count ELSE tCount,
     acked |-> ackSeen, started |-> ackStarted, done |-> ackDone]

\* does the receive buffer hold, behind complete frames of known kinds only,
\* a complete Command frame with a header DataStack or DataTag whose value
\* parses to t?  (history)
BatchAcks(batch, t) ==
    \E f \in DOMAIN batch :
        /\ \A g \in 1..f : batch[g].complete /\ batch[g].type \in {0, 1, 2}
        /\ batch[f].type = 1
        /\ \E k \in DOMAIN batch[f].headers :
               /\ batch[f].headers[k].key \in {"DataStack", "DataTag"}
               /\ atoll(batch[f].headers[k].value) = t

\* the audio units of the sources 1..n together
RECURSIVE TotalUnits(_, _)
TotalUnits(units, n) == IF n = 0 THEN 0 ELSE units[n] + TotalUnits(units, n - 1)

UploadInit ==
    /\ wavformat \in {"PCM", "DSD"}
    /\ loop_mode \in BOOLEAN
    /\ \E n \in 1..MaxSources : \E units \in [1..n -> 0..MaxUnits] :
           /\ TotalUnits(units, n) <= MaxUnits
           /\ wavs = [k \in 1..n |-> OpenWAV(wavformat, k, units[k])]
    /\ i = 1
    /\ buf = <<>>
    /\ tCount = 0
    /\ rest = ReadRestInit
    /\ pc = "announce"
    /\ ackRet = "none"
    /\ result = "none"
    /\ cause = "none"
    /\ sent = <<>>
    /\ ackSeen = FALSE
    /\ ackOther = FALSE
    /\ ackStarted = 0
    /\ ackDone = 0
    /\ failure = {}
    /\ readlog = <<>>

UploadConst == UNCHANGED <<wavformat, loop_mode, svars, cvars, pvars>>

\* a step that reads no source
NoRead == UNCHANGED readlog

\* may the environment make an operation fail in the way named kind?
CanFail(kind) == kind \in failure \/ Cardinality(failure) < MaxFaults

\* return code: the upload ends
Return(code, why) ==
    /\ pc' = "done"
    /\ result' = code
    /\ cause' = why
    /\ UNCHANGED <<ackRet, ackStarted, ackDone>>

\* client.send of an ackable frame followed by rev_check: on a failed send the
\* upload returns; otherwise the counter is set and the ack wait begins.
\* f0 holds the failures up to this send.
SendThenAck(type, role, data, text, ok, count, ret, f0) ==
    /\ ok \/ CanFail("send")
    /\ sent' = Append(sent, Frame(type, role, data, text, ok, count))
    /\ ackSeen' = FALSE
    /\ ackOther' = FALSE
    /\ IF ~ok
       THEN /\ Return(SendFailCode, "send")
            /\ failure' = f0 \cup {"send"}
            /\ UNCHANGED tCount
       ELSE /\ tCount' = count
            /\ pc' = "ack"
            /\ ackRet' = ret
            /\ ackStarted' = ackStarted + 1
            /\ failure' = f0
            /\ UNCHANGED <<result, cause, ackDone>>

\* an announcement that waits for an ack like every other frame
UploadAnnounceAcked ==
    /\ pc = "announce"
    /\ NoRead
    /\ UploadConst
    /\ UNCHANGED <<wavs, i, buf, rest>>
    /\ \E ok \in BOOLEAN :
           SendThenAck(0, "fmt", FormatIDBytes, "", ok, CountAfterTag(tCount),
                       "read", failure)

\* "Send initial format and mute data": the result of client.send is not tested
UploadAnnounce ==
    /\ pc = "announce"
    /\ NoRead
    /\ \E ok \in BOOLEAN :
           /\ ok \/ CanFail("send")
           /\ sent' = Append(sent, Frame(0, "fmt", FormatIDBytes, "", ok, tCount))
           /\ failure' = IF ok THEN failure ELSE failure \cup {"send"}
    /\ pc' = "read"
    /\ UNCHANGED <<wavs, i, buf, tCount, rest, ackRet, result, cause, ackSeen, ackOther,
                   ackStarted, ackDone>>
    /\ UploadConst

\* one pass of "while (!wav->is_empty())": a read, and a Data chunk when a
\* second of audio is buffered.  The value wav->read returns is not tested.
\* A read whose reassembler wrote past its buffer is undefined behaviour:
\* the upload goes on with the buffer as resized, or the process dies.
UploadRead ==
    /\ pc = "read"
    /\ UploadConst
    /\ IF is_empty(wavs[i])
       THEN /\ pc' = "flush"
            /\ UNCHANGED <<wavs, i, buf, tCount, rest, ackRet, result, cause, sent,
                           ackSeen, ackOther, ackStarted, ackDone, failure, readlog>>
       ELSE \E ioOk \in BOOLEAN :
            LET r == WAVread(wavs[i], get1secSize - Len(buf), rest, ioOk)
                nbuf == buf \o r.buffer
                f1 == failure \cup (IF r.ok THEN {} ELSE {"read"})
            IN  /\ ioOk \/ (CanFail("read") /\ ~r.ok)
                /\ wavs' = [wavs EXCEPT ![i] = r.wav]
                /\ rest' = r.rest
                /\ readlog' = readlog \o r.buffer
                /\ UNCHANGED i
                /\ \/ /\ r.overrun
                      /\ Return("crashed", "overrun")
                      /\ failure' = f1
                      /\ UNCHANGED <<buf, tCount, sent, ackSeen, ackOther>>
                   \/ /\ r.buffer = <<>>
                      /\ pc' = "flush"
                      /\ failure' = f1
                      /\ UNCHANGED <<buf, tCount, ackRet, result, cause, sent, ackSeen, ackOther,
                                     ackStarted, ackDone>>
                   \/ /\ r.buffer # <<>>
                      /\ Len(nbuf) >= get1secSize
                      /\ buf' = nbuf
                      /\ \E ok \in BOOLEAN :
                             SendThenAck(0, "data", FormatIDBytes \o nbuf, "", ok,
                                         CountAfterData(tCount), "read", f1)
                   \/ /\ r.buffer # <<>>
                      /\ Len(nbuf) < get1secSize
                      /\ buf' = nbuf
                      /\ pc' = "read"
                      /\ failure' = f1
                      /\ UNCHANGED <<tCount, ackRet, result, cause, sent, ackSeen, ackOther,
                                     ackStarted, ackDone>>

\* "if (!buf.empty())" after the read loop: the partial chunk of a source
UploadFlush ==
    /\ pc = "flush"
    /\ NoRead
    /\ UploadConst
    /\ UNCHANGED <<wavs, i, buf, rest>>
    /\ IF buf # <<>>
       THEN \E ok \in BOOLEAN :
                SendThenAck(0, "data", FormatIDBytes \o buf, "", ok,
                            CountAfterData(tCount), "tag", failure)
       ELSE /\ pc' = "tag"
            /\ UNCHANGED <<tCount, ackRet, result, cause, sent, ackSeen, ackOther, ackStarted,
                           ackDone, failure>>

\* a title Tag that is sent without waiting for its ack
UploadTagNoWait ==
    /\ pc = "tag"
    /\ NoRead
    /\ UploadConst
    /\ sent' = Append(sent, Frame(2, "title", <<>>, wavs[i].title_, TRUE, tCount))
    /\ pc' = IF i + 1 <= Len(wavs) THEN "read" ELSE "final"
    /\ i' = i + 1
    /\ UNCHANGED <<wavs, buf, tCount, rest, ackRet, result, cause, ackSeen, ackOther,
                   ackStarted, ackDone, failure>>

\* "Send tag": the title of the source
UploadTag ==
    /\ pc = "tag"
    /\ NoRead
    /\ UploadConst
    /\ UNCHANGED <<wavs, i, buf, rest>>
    /\ \E ok \in BOOLEAN :
           SendThenAck(2, "title", <<>>, wavs[i].title_, ok,
                       CountAfterTag(tCount), "next", failure)

\* "Send final rest data": rest.final(buf) and the tail chunk
UploadFinal ==
    /\ pc = "final"
    /\ NoRead
    /\ UploadConst
    /\ UNCHANGED <<wavs, i, rest>>
    /\ buf' = final(rest)
    /\ IF final(rest) # <<>>
       THEN \E ok \in BOOLEAN :
                SendThenAck(0, "tail", FormatIDBytes \o final(rest), "", ok,
                            CountAfterData(tCount), "loop", failure)
       ELSE /\ pc' = "loop"
            /\ UNCHANGED <<tCount, ackRet, result, cause, sent, ackSeen, ackOther, ackStarted,
                           ackDone, failure>>

\* an upload that never sends the LOOP tag
UploadLoopSkipped ==
    /\ pc = "loop"
    /\ NoRead
    /\ UploadConst
    /\ pc' = "quit"
    /\ UNCHANGED <<wavs, i, buf, tCount, rest, ackRet, result, cause, sent, ackSeen,
                   ackOther, ackStarted, ackDone, failure>>

\* "Send loop tag if requested"
UploadLoop ==
    /\ pc = "loop"
    /\ NoRead
    /\ UploadConst
    /\ UNCHANGED <<wavs, i, buf, rest>>
    /\ IF loop_mode
       THEN \E ok \in BOOLEAN :
                SendThenAck(2, "loop", <<>>, LoopTag, ok,
                            CountAfterTag(tCount), "quit", failure)
       ELSE /\ pc' = "quit"
            /\ UNCHANGED <<tCount, ackRet, result, cause, sent, ackSeen, ackOther, ackStarted,
                           ackDone, failure>>

\* "Send quit tag"
UploadQuit ==
    /\ pc = "quit"
    /\ NoRead
    /\ UploadConst
    /\ UNCHANGED <<wavs, i, buf, rest>>
    /\ \E ok \in BOOLEAN :
           SendThenAck(2, "quit", <<>>, QuitTag, ok,
                       CountAfterTag(tCount), "success", failure)

\* a send buffer that is never emptied
BufAfterAckKept(ret, b) == b

\* "buf.clear();" after the rev_check of a Data chunk: the chunk of the read
\* loop, the partial chunk of a source, the tail chunk
BufAfterAck(ret, b) == IF ret \in {"read", "tag", "loop"} THEN <<>> ELSE b

\* rev_check returned true: the statements that follow the call
AckReturn ==
    /\ ackDone' = ackDone + 1
    /\ ackRet' = "none"
    /\ UNCHANGED <<tCount, ackStarted, sent, wavs, rest>>
    /\ pc' = CASE ackRet = "read" -> "read"
               [] ackRet = "tag" -> "tag"
               [] ackRet = "next" -> IF i + 1 <= Len(wavs) THEN "read" ELSE "final"
               [] ackRet = "loop" -> "loop"
               [] ackRet = "quit" -> "quit"
               [] ackRet = "success" -> "done"
    /\ i' = IF ackRet = "next" THEN i + 1 ELSE i
    /\ buf' = BufAfterAck(ackRet, buf)
    /\ result' = IF ackRet = "success" THEN MPC_SUCCESS ELSE result
    /\ UNCHANGED cause

\* rev_check, client.wait reports WAKEUP: one receive (its result is not
\* tested; a failed receive leaves rcvBuf empty) and the frame loop over it
AckWakeup ==
    /\ pc = "ack"
    /\ NoRead
    /\ UploadConst
    /\ \E recvOk \in BOOLEAN :
       \E batch \in SeqsUpTo(UploadHostFrames(tCount), MaxBatch) :
       LET rcvBuf == IF recvOk THEN batch ELSE <<>>
           seen == ackSeen \/ (recvOk /\ BatchAcks(batch, tCount))
           f1 == IF recvOk THEN failure ELSE failure \cup {"recv"}
       IN  /\ recvOk \/ (batch = <<>> /\ CanFail("recv"))
           /\ failure' = f1
           /\ ackSeen' = seen
           /\ ackOther' = (ackOther \/ (recvOk /\ batch # <<>> /\ ~BatchAcks(batch, tCount)))
           /\ IF rev_scan(rcvBuf, tCount)
              THEN AckReturn
              ELSE UNCHANGED <<wavs, i, buf, tCount, rest, pc, ackRet, result, cause, sent,
                               ackStarted, ackDone>>

\* rev_check, client.wait reports TIMEOUT after 2 seconds: "Timeout Data"
AckWaitTimeout ==
    /\ pc = "ack"
    /\ NoRead
    /\ UploadConst
    /\ Return(AckFailCode, "timeout")
    /\ UNCHANGED failure
    /\ UNCHANGED <<wavs, i, buf, tCount, rest, sent, ackSeen, ackOther>>

\* rev_check, client.wait reports ERROR
AckWaitError ==
    /\ pc = "ack"
    /\ NoRead
    /\ UploadConst
    /\ CanFail("wait")
    /\ Return(AckFailCode, "wait")
    /\ failure' = failure \cup {"wait"}
    /\ UNCHANGED <<wavs, i, buf, tCount, rest, sent, ackSeen, ackOther>>

-----------------------------------------------------------------------------
(* ControlSession and receiveMessages, lib_memory_play_controller.cpp *)

Chars_Play == <<"P", "l", "a", "y">>
Chars_Pause == <<"P", "a", "u", "s", "e">>
Chars_Disconnect == <<"D", "i", "s", "c", "o", "n", "n", "e", "c", "t">>
Chars_Status == <<"S", "t", "a", "t", "u", "s">>
Chars_Front == <<"F", "r", "o", "n", "t">>
Chars_Quit == <<"Q", "u", "i", "t">>

\* operator<< of an int64_t
DecInt(n) == IF n < 0 THEN <<"-">> \o Dec(0 - n) ELSE Dec(n)

\* the commands that send one header and read no reply
SimpleCommands ==
    {"connect_target", "play", "pause", "seek", "seek_to_start", "seek_absolute",
     "quit"}

\* the commands that send Request=Status and drain the replies
RequestCommands == {"get_play_status", "get_current_time", "get_tag_list"}

\* a seek that writes no '+'
CommandHeaderNoPlus(c, arg) ==
    CASE c = "connect_target" -> Hdr("Connect", <<":", ":", "1", " ">> \o Dec(arg))
      [] c = "play" -> Hdr("Play", <<>>)
      [] c = "pause" -> Hdr("Pause", <<>>)
      [] c = "seek" -> Hdr("Seek", DecInt(arg))
      [] c = "seek_to_start" -> Hdr("Seek", Chars_Front)
      [] c = "seek_absolute" -> Hdr("Seek", DecInt(arg))
      [] c = "quit" -> Hdr("Seek", Chars_Quit)
      [] OTHER -> Hdr("Request", Chars_Status)

\* the header a command sends; arg is its integer argument
CommandHeader(c, arg) ==
    CASE c = "connect_target" -> Hdr("Connect", <<":", ":", "1", " ">> \o Dec(arg))
      [] c = "play" -> Hdr("Play", <<>>)
      [] c = "pause" -> Hdr("Pause", <<>>)
      [] c = "seek" -> Hdr("Seek", IF arg > 0 THEN <<"+">> \o DecInt(arg)
                                   ELSE DecInt(arg))
      [] c = "seek_to_start" -> Hdr("Seek", Chars_Front)
      [] c = "seek_absolute" -> Hdr("Seek", DecInt(arg))
      [] c = "quit" -> Hdr("Seek", Chars_Quit)
      [] OTHER -> Hdr("Request", Chars_Status)

\* what a command returns when the session is not connected
NotConnectedCode(c) ==
    IF c \in {"get_play_status", "get_current_time"}
    THEN MPC_ERROR_INVALID_PARAM
    ELSE MPC_ERROR_CONNECTION

\* connected after client.send failed in a command: it is left as it was
ConnectedAfterSendFail(c) == c

\* a lastrecv that every received frame sets
sinceLastrecvAnyFrame(seen, batch, t) == IF batch # <<>> THEN 0 ELSE t

\* Clock::now() - lastrecv after the frame loop over the buffer batch, where
\* t is what it would be had no header been handed over: lastrecv is set to
\* Clock::now() for every header (seen)
sinceLastrecv(seen, batch, t) == IF seen THEN 0 ELSE t

\* the timeoutMs a command passes to receiveMessages
CommandTimeout(c) == IF c = "get_current_time" THEN 1250 ELSE 500

\* The handlers of the request commands.  h is a header, out the record of
\* the command's outputs [status, time_seconds, tags]; done is what the
\* handler returns.

\* a handleStatus that returns true for every header
handleStatusAnyKey(h, out) ==
    [done |-> TRUE,
     out |-> IF h.key # "Status" THEN out
             ELSE [out EXCEPT !.status =
                     IF h.value = Chars_Disconnect THEN MPC_STATUS_DISCONNECTED
                     ELSE IF h.value = Chars_Play THEN MPC_STATUS_PLAYING
                     ELSE IF h.value = Chars_Pause THEN MPC_STATUS_PAUSED
                     ELSE out.status]]

\* handleStatus of get_play_status
handleStatus(h, out) ==
    IF h.key = "Status"
    THEN [done |-> TRUE,
          out |-> [out EXCEPT !.status =
                     IF h.value = Chars_Disconnect THEN MPC_STATUS_DISCONNECTED
                     ELSE IF h.value = Chars_Play THEN MPC_STATUS_PLAYING
                     ELSE IF h.value = Chars_Pause THEN MPC_STATUS_PAUSED
                     ELSE out.status]]
    ELSE [done |-> FALSE, out |-> out]

\* a handleTime that returns true for every Status header
handleTimeAnyStatus(h, out) ==
    IF h.key = "Status"
    THEN [done |-> TRUE, out |-> out]
    ELSE IF h.key = "LastTime"
    THEN [done |-> TRUE, out |-> [out EXCEPT !.time_seconds = atoll(h.value)]]
    ELSE [done |-> FALSE, out |-> out]

\* handleTime of get_current_time
handleTime(h, out) ==
    IF h.key = "Status" /\ h.value \in {Chars_Disconnect, Chars_Pause}
    THEN [done |-> TRUE, out |-> out]
    ELSE IF h.key = "LastTime"
    THEN [done |-> TRUE, out |-> [out EXCEPT !.time_seconds = atoll(h.value)]]
    ELSE [done |-> FALSE, out |-> out]

\* a handleTags that returns false for every header
handleTagsNeverDone(h, out) ==
    IF h.key = "Tag"
    THEN [done |-> FALSE, out |-> [out EXCEPT !.tags = Append(out.tags, h.value)]]
    ELSE [done |-> FALSE, out |-> out]

\* handleTags of get_tag_list
handleTags(h, out) ==
    IF h.key = "Tag"
    THEN [done |-> FALSE, out |-> [out EXCEPT !.tags = Append(out.tags, h.value)]]
    ELSE [done |-> TRUE, out |-> out]

\* the handler the command c passes to receiveMessages
handleFrame(c, h, out) ==
    CASE c = "get_play_status" -> handleStatus(h, out)
      [] c = "get_current_time" -> handleTime(h, out)
      [] OTHER -> handleTags(h, out)

\* the frame loop of receiveMessages over one received buffer: the headers of
\* its Command frames go to handleFrame in order until it returns true or
\* checkFrame fails; seen says that lastrecv was set
RECURSIVE recv_headers(_, _, _, _)
RECURSIVE recv_frames(_, _, _, _)
recv_headers(c, hs, rcvBuf, acc) ==
    IF hs = <<>>
    THEN recv_frames(c, next(rcvBuf), acc.out, acc.seen)
    ELSE LET r == handleFrame(c, Head(hs), acc.out)
         IN  IF r.done
             THEN [done |-> TRUE, out |-> r.out, seen |-> TRUE]
             ELSE recv_headers(c, Tail(hs), rcvBuf,
                               [out |-> r.out, seen |-> TRUE])
recv_frames(c, rcvBuf, out, seen) ==
    IF ~checkFrame(rcvBuf)
    THEN [done |-> FALSE, out |-> out, seen |-> seen]
    ELSE IF getType(rcvBuf) = 1
    THEN recv_headers(c, ReceiveMessageFrames(rcvBuf), rcvBuf,
                      [out |-> out, seen |-> seen])
    ELSE recv_frames(c, next(rcvBuf), out, seen)

\* does the walk over the received buffer come upon a complete frame of a
\* kind other than 0, 1 and 2?  (history)
UnknownKindReached(batch) ==
    \E f \in DOMAIN batch :
        /\ batch[f].complete /\ batch[f].type \notin {0, 1, 2}
        /\ \A g \in 1..(f - 1) : batch[g].complete /\ batch[g].type \in {0, 1, 2}

\* the headers a received buffer brings to the frame loop: those of its
\* Command frames, as far as the frames are complete and of a known kind
\* (history)
RECURSIVE Heard(_)
Heard(batch) ==
    IF batch = <<>> \/ ~Head(batch).complete \/ Head(batch).type \notin {0, 1, 2}
    THEN <<>>
    ELSE (IF Head(batch).type = 1 THEN Head(batch).headers ELSE <<>>)
         \o Heard(Tail(batch))

\* the frames the host sends on a session
SessionHostFrames ==
    {CmdFrame(<<Hdr("Status", Chars_Play)>>),
     CmdFrame(<<Hdr("Status", Chars_Pause)>>),
     CmdFrame(<<Hdr("Status", Chars_Disconnect)>>),
     CmdFrame(<<Hdr("LastTime", <<"4", "2">>)>>),
     CmdFrame(<<Hdr("Tag", <<"a">>)>>),
     CmdFrame(<<Hdr("Tag", <<"b">>), Hdr("Other", <<"x">>)>>),
     CmdFrame(<<>>),
     [type |-> 0, complete |-> TRUE, headers |-> <<>>],
     [type |-> 3, complete |-> TRUE, headers |-> <<>>]}

\* what one receive can bring: up to MaxBatch frames
SessionBatches == SeqsUpTo(SessionHostFrames, MaxBatch)

\* the arguments of seek, seek_absolute and connect_target
CommandArgs == {-60, 0, 60}

\* the session after ControlSession::open succeeded
SessionInit ==
    /\ connected = TRUE
    /\ spc = "idle"
    /\ cmd = "none"
    /\ sresult = "none"
    /\ ssent = <<>>
    /\ sinceRecv = 0
    /\ timeoutMs = 0
    /\ status = MPC_STATUS_DISCONNECTED
    /\ time_seconds = -1
    /\ tags = <<>>
    /\ connFailed = FALSE
    /\ prevConnFailed = FALSE
    /\ badKind = FALSE
    /\ carg = 0
    /\ heard = <<>>
    /\ drainCode = "none"
    /\ sinceHeader = 0

\* a command begins: the history of the one before it is kept
Begin(c) ==
    /\ spc = "idle"
    /\ cmd' = c
    /\ prevConnFailed' = connFailed
    /\ badKind' = FALSE
    /\ heard' = <<>>
    /\ drainCode' = "none"
    /\ sinceHeader' = 0
    /\ UNCHANGED <<uvars, cvars, pvars>>

\* connect_target, play, pause, seek, seek_to_start, seek_absolute, quit
SimpleCommand ==
    \E c \in SimpleCommands : \E arg \in CommandArgs : \E ok \in BOOLEAN :
        /\ Begin(c)
        /\ carg' = arg
        /\ (c \in {"seek", "seek_absolute"} \/ arg = 0)
        /\ (c = "seek_absolute" => arg >= 0)
        /\ status' = MPC_STATUS_DISCONNECTED
        /\ time_seconds' = -1
        /\ tags' = <<>>
        /\ UNCHANGED <<spc, sinceRecv, timeoutMs>>
        /\ IF ~connected
           THEN /\ sresult' = NotConnectedCode(c)
                /\ ssent' = <<>>
                /\ connFailed' = FALSE
                /\ UNCHANGED connected
           ELSE /\ ssent' = <<CommandHeader(c, arg)>>
                /\ sresult' = IF ok THEN MPC_SUCCESS ELSE MPC_ERROR_CONNECTION
                /\ connFailed' = ~ok
                /\ connected' = IF ok THEN connected ELSE ConnectedAfterSendFail(connected)

\* get_play_status, get_current_time, get_tag_list up to receiveMessages
RequestCommand ==
    \E c \in RequestCommands : \E ok \in BOOLEAN :
        /\ Begin(c)
        /\ carg' = 0
        /\ IF ~connected
           THEN /\ sresult' = NotConnectedCode(c)
                /\ ssent' = <<>>
                /\ connFailed' = FALSE
                /\ status' = MPC_STATUS_DISCONNECTED
                /\ time_seconds' = -1
                /\ tags' = <<>>
                /\ UNCHANGED <<connected, spc, sinceRecv, timeoutMs>>
           ELSE /\ status' = MPC_STATUS_DISCONNECTED
                /\ time_seconds' = -1
                /\ tags' = <<>>
                /\ ssent' = <<CommandHeader(c, 0)>>
                /\ IF ok
                   THEN /\ spc' = "drain"
                        /\ timeoutMs' = CommandTimeout(c)
                        /\ sinceRecv' = 0
                        /\ UNCHANGED <<connected, sresult, connFailed>>
                   ELSE /\ sresult' = MPC_ERROR_CONNECTION
                        /\ connFailed' = TRUE
                        /\ connected' = ConnectedAfterSendFail(connected)
                        /\ UNCHANGED <<spc, sinceRecv, timeoutMs>>

\* a request command that returns what receiveMessages returned
CommandResultOfWait(code) == code

\* what a request command returns when receiveMessages returned code
CommandResult(code) ==
    IF code = MPC_ERROR_CONNECTION THEN MPC_ERROR_CONNECTION ELSE MPC_SUCCESS

\* receiveMessages returned code: the end of a request command
Drained(code) ==
    /\ spc' = "idle"
    /\ sresult' = CommandResult(code)
    /\ connected' = IF code = MPC_ERROR_CONNECTION THEN FALSE ELSE connected
    /\ connFailed' = (code = MPC_ERROR_CONNECTION)
    /\ drainCode' = code
    /\ UNCHANGED <<cmd, ssent, timeoutMs, prevConnFailed, carg, uvars, cvars, pvars>>

\* receiveMessages, client.wait reports ERROR: "Socket Error"
DrainWaitError ==
    /\ spc = "drain"
    /\ Drained(MPC_ERROR_CONNECTION)
    /\ UNCHANGED <<sinceRecv, status, time_seconds, tags, badKind, heard, sinceHeader>>

\* receiveMessages, client.wait reports TIMEOUT after 100 ms
DrainWaitTimeout ==
    /\ spc = "drain"
    /\ UNCHANGED <<status, time_seconds, tags, badKind, heard>>
    /\ sinceHeader' = Min(sinceHeader + 100, timeoutMs)
    /\ LET elapsed == Min(sinceRecv + 100, timeoutMs)
       IN  /\ sinceRecv' = elapsed
           /\ IF elapsed >= timeoutMs
              THEN Drained(MPC_ERROR_TIMEOUT)
              ELSE UNCHANGED <<connected, spc, cmd, sresult, ssent,
                               timeoutMs, connFailed, prevConnFailed, carg,
                               drainCode, uvars, cvars, pvars>>

\* receiveMessages, client.wait reports WAKEUP after d ms: one receive into a
\* fresh buffer and the frame loop over it
DrainWakeup ==
    /\ spc = "drain"
    /\ \E recvOk \in BOOLEAN :
       \E batch \in SessionBatches :
       LET r == recv_frames(cmd, batch, [status |-> status,
                                         time_seconds |-> time_seconds,
                                         tags |-> tags], FALSE)
       IN  \E d \in IF recvOk /\ ~r.seen THEN {0, 100} ELSE {0} :
           /\ recvOk \/ batch = <<>>
           /\ badKind' = (badKind \/ (recvOk /\ ~r.done /\ UnknownKindReached(batch)))
           /\ IF ~recvOk
              THEN /\ Drained(MPC_ERROR_CONNECTION)
                   /\ UNCHANGED <<sinceRecv, status, time_seconds, tags, heard,
                                   sinceHeader>>
              ELSE /\ Len(r.out.tags) <= MaxTags
                   /\ Len(heard) + Len(Heard(batch)) <= MaxHeard
                   /\ heard' = heard \o Heard(batch)
                   /\ sinceHeader' = IF Heard(batch) # <<>> THEN 0
                                     ELSE Min(sinceHeader + d, timeoutMs)
                   /\ status' = r.out.status
                   /\ time_seconds' = r.out.time_seconds
                   /\ tags' = r.out.tags
                   /\ sinceRecv' = sinceLastrecv(r.seen, batch,
                                                  Min(sinceRecv + d, timeoutMs))
                   /\ IF r.done
                      THEN Drained(MPC_SUCCESS)
                      ELSE UNCHANGED <<connected, spc, cmd, sresult, ssent,
                                       timeoutMs, connFailed, prevConnFailed,
                                       carg, drainCode, uvars, cvars, pvars>>

-----------------------------------------------------------------------------
(* The frame codec, lib_memory_play_client.hpp.  A byte is a number 0..255, *)
(* a buffer a sequence of bytes.                                           *)

\* sizeof(PayloadHeader), sizeof(DataHeader), sizeof(HeadersHeader)
PayloadHeaderSize == 9
DataHeaderSize == 1
HeadersHeaderSize == 6

\* the characters '\r', '\n' and '='
CR == 13
LF == 10
EQ == 61

\* Frame::write1Byte, write3Byte, write4Byte (big-endian)
write1Byte(v) == <<v % 256>>
write3Byte(v) == <<(v \div 65536) % 256, (v \div 256) % 256, v % 256>>
write4Byte(v) ==
    <<(v \div 16777216) % 256, (v \div 65536) % 256, (v \div 256) % 256, v % 256>>

\* Frame::read1Byte, read3Byte of the bytes of d from offset off (0-based)
read1Byte(d, off) == d[off + 1]
read3Byte(d, off) == d[off + 1] * 65536 + d[off + 2] * 256 + d[off + 3]

\* the 9 bytes of a PayloadHeader after setLength, setType, setFlags and
\* setIdentifier
PayloadHeader(length, type, flags, identifier) ==
    write3Byte(length) \o write1Byte(type) \o write1Byte(flags) \o write4Byte(identifier)

\* a sender that writes the length of the payload without its sub-header
SendMessageShortLength(baseSize, type, frameHeader, payload) ==
    PayloadHeader(Len(payload), type, 0, 0) \o frameHeader \o payload

\* the buffer of a SendMessage of baseSize bytes of sub-header after
\* resize(Len(payload)) and the payload's bytes were written
SendMessage(baseSize, type, frameHeader, payload) ==
    PayloadHeader(Len(payload) + baseSize, type, 0, 0) \o frameHeader \o payload

\* the 1-byte DataHeader after setPad(0)
DataHeader == write1Byte(0)

\* the 6-byte HeadersHeader after setPad(0), setDependency(0), setWeight(0)
HeadersHeader == write1Byte(0) \o write4Byte(0) \o write1Byte(0)

\* SendMessageData(tag) after addData(payload) or addString(payload)
SendMessageData(tag, payload) ==
    SendMessage(DataHeaderSize, IF tag THEN 2 ELSE 0, DataHeader, payload)

\* the bytes addHeader(k, v) appends
addHeader(k, v) == k \o <<EQ>> \o v \o <<CR, LF>>

\* the bytes of the headers hs, each [key, value], added in order
RECURSIVE addHeaders(_)
addHeaders(hs) ==
    IF hs = <<>> THEN <<>> ELSE addHeader(Head(hs).key, Head(hs).value) \o addHeaders(Tail(hs))

\* SendMessageFrames() after addHeader of each header of hs
SendMessageFrames(hs) == SendMessage(HeadersHeaderSize, 1, HeadersHeader, addHeaders(hs))

\* a checkFrame that does not wait for the sub-header of a Command frame
checkFrameNoSubHeader(b, type0, frameLength0) ==
    IF Len(b) < PayloadHeaderSize
    THEN [ok |-> FALSE, type |-> type0, frameLength |-> frameLength0]
    ELSE LET frameLength == read3Byte(b, 0)
             type == read1Byte(b, 3)
         IN  IF Len(b) < frameLength + PayloadHeaderSize
             THEN [ok |-> FALSE, type |-> type0, frameLength |-> frameLength]
             ELSE [ok |-> type \in {0, 1, 2}, type |-> type, frameLength |-> frameLength]

\* ReceiveMessage::checkFrame on the bytes b; type0 and frameLength0 are the
\* fields as they were
checkFrameBytes(b, type0, frameLength0) ==
    IF Len(b) < PayloadHeaderSize
    THEN [ok |-> FALSE, type |-> type0, frameLength |-> frameLength0]
    ELSE LET frameLength == read3Byte(b, 0)
             type == read1Byte(b, 3)
         IN  IF Len(b) < frameLength + PayloadHeaderSize
             THEN [ok |-> FALSE, type |-> type0, frameLength |-> frameLength]
             ELSE IF type = 0 \/ type = 2
             THEN [ok |-> TRUE, type |-> type, frameLength |-> frameLength]
             ELSE IF type = 1
             THEN [ok |-> ~(Len(b) < PayloadHeaderSize + HeadersHeaderSize),
                   type |-> type, frameLength |-> frameLength]
             ELSE [ok |-> FALSE, type |-> type, frameLength |-> frameLength]

\* ReceiveMessage::getFramePayload
getFramePayload(b, frameLength) ==
    SubSeq(b, PayloadHeaderSize + 1, PayloadHeaderSize + frameLength)

\* ReceiveMessage::next
nextBytes(b, frameLength) ==
    SubSeq(b, frameLength + PayloadHeaderSize + 1, Len(b))

\* the first n bytes 1, 2, .. of a payload
Payload(n) == [k \in 1..n |-> k]

\* the frames a peer sends with the library's senders: Data and Tag frames of
\* up to MaxPayload bytes, Command frames of no, one and two headers
LibraryFrames ==
    {[kind |-> IF tag THEN 2 ELSE 0, body |-> DataHeader \o Payload(n), lib |-> TRUE,
      bytes |-> SendMessageData(tag, Payload(n))] : tag \in BOOLEAN, n \in 0..MaxPayload}
    \cup
    {[kind |-> 1, body |-> HeadersHeader \o addHeaders(hs), lib |-> TRUE,
      bytes |-> SendMessageFrames(hs)] :
        hs \in {<<>>, <<[key |-> <<75>>, value |-> <<>>]>>}}

\* the frames a peer writes by hand: a Command frame shorter than its
\* sub-header and frames of an unknown kind
RawFrames ==
    {[kind |-> k, body |-> Payload(n), lib |-> FALSE,
      bytes |-> PayloadHeader(n, k, 0, 0) \o Payload(n)] : k \in {1, 3}, n \in {0, 2}}

CodecInit ==
    /\ txq = <<>>
    /\ wire = <<>>
    /\ rbuf = <<>>
    /\ rtype = 0
    /\ rlen = 0
    /\ rok = "none"
    /\ got = <<>>

\* the peer sends a frame built by SendMessageData or SendMessageFrames
FrameSend ==
    /\ Len(txq) < MaxFrames
    /\ \E f \in LibraryFrames :
           /\ txq' = Append(txq, f)
           /\ wire' = wire \o f.bytes
    /\ UNCHANGED <<rbuf, rtype, rlen, rok, got, uvars, svars, pvars>>

\* the peer sends a frame written by hand
FrameSendRaw ==
    /\ Len(txq) < MaxFrames
    /\ \E f \in RawFrames :
           /\ txq' = Append(txq, f)
           /\ wire' = wire \o f.bytes
    /\ UNCHANGED <<rbuf, rtype, rlen, rok, got, uvars, svars, pvars>>

\* client.receive appends the next n bytes to the ReceiveMessage
FrameReceive ==
    /\ \E n \in 1..Len(wire) :
           /\ rbuf' = rbuf \o SubSeq(wire, 1, n)
           /\ wire' = SubSeq(wire, n + 1, Len(wire))
    /\ rok' = "none"
    /\ UNCHANGED <<txq, rtype, rlen, got, uvars, svars, pvars>>

\* rcvBuf.checkFrame()
FrameCheck ==
    /\ rok = "none"
    /\ LET r == checkFrameBytes(rbuf, rtype, rlen)
       IN  /\ rok' = IF r.ok THEN "true" ELSE "false"
           /\ rtype' = r.type
           /\ rlen' = r.frameLength
    /\ UNCHANGED <<txq, wire, rbuf, got, uvars, svars, pvars>>

\* rcvBuf.getType(), rcvBuf.getFramePayload() and rcvBuf.next() after
\* checkFrame returned true
FrameNext ==
    /\ rok = "true"
    /\ got' = Append(got, [kind |-> rtype, body |-> getFramePayload(rbuf, rlen)])
    /\ rbuf' = nextBytes(rbuf, rlen)
    /\ rok' = "none"
    /\ UNCHANGED <<txq, wire, rtype, rlen, uvars, svars, pvars>>

\* the state of the constructor's loop before its first character
parseStart == [state |-> FALSE, key |-> <<>>, value |-> <<>>, list |-> <<>>]

\* push_back(std::make_pair(key, value)) when the key is not empty
pushPair(st) ==
    IF st.key # <<>> THEN Append(st.list, [key |-> st.key, value |-> st.value])
    ELSE st.list

\* a body of the constructor's loop that takes every '=' as a separator
parseCharEveryEq(st, ch) ==
    IF ch = CR \/ ch = LF
    THEN [state |-> FALSE, key |-> <<>>, value |-> <<>>, list |-> pushPair(st)]
    ELSE IF ch = EQ THEN [st EXCEPT !.state = TRUE]
    ELSE IF ~st.state THEN [st EXCEPT !.key = Append(st.key, ch)]
    ELSE [st EXCEPT !.value = Append(st.value, ch)]

\* one turn of the constructor's loop, on the character ch
parseChar(st, ch) ==
    IF ch = CR \/ ch = LF
    THEN [state |-> FALSE, key |-> <<>>, value |-> <<>>, list |-> pushPair(st)]
    ELSE IF ~st.state
         THEN IF ch = EQ THEN [st EXCEPT !.state = TRUE]
              ELSE [st EXCEPT !.key = Append(st.key, ch)]
         ELSE [st EXCEPT !.value = Append(st.value, ch)]

\* the constructor's loop from the character at c (counted from 1) on
RECURSIVE parseLoop(_, _, _)
parseLoop(data, c, st) ==
    IF c > Len(data) THEN st ELSE parseLoop(data, c + 1, parseChar(st, data[c]))

\* ReceiveMessageFrames(data): the list of (key, value) pairs of a frame
\* payload, read from behind its HeadersHeader
ReceiveMessageFramesBytes(data) ==
    pushPair(parseLoop(data, HeadersHeaderSize + 1, parseStart))

\* the characters the texts of the payloads are made of: two letters, '=',
\* '\r' and '\n'
TextAlphabet == {75, 118, EQ, CR, LF}

\* the texts of up to n characters
RECURSIVE Texts(_)
Texts(n) ==
    IF n = 0 THEN {<<>>}
    ELSE LET shorter == Texts(n - 1)
         IN  shorter \cup {Append(t, ch) : t \in {u \in shorter : Len(u) = n - 1},
                                           ch \in TextAlphabet}

\* the sub-headers of the payloads: the one SendMessageFrames writes, and
\* one whose bytes read as a header line
SubHeaders == {HeadersHeader, <<75, EQ, 118, CR, LF, 75>>}

\* no ReceiveMessageFrames is being built
ParseIdle ==
    /\ pdata = <<>>
    /\ plist = <<>>
    /\ ppc = "idle"

\* a frame payload, complete with sub-header, is at hand
ParseInit ==
    /\ pdata \in {h \o t : h \in SubHeaders, t \in Texts(MaxText)}
    /\ plist = <<>>
    /\ ppc = "ready"

\* MemoryPlayControll::ReceiveMessageFrames frames(rcvBuf.getFramePayload())
ParseFrames ==
    /\ ppc = "ready"
    /\ plist' = ReceiveMessageFramesBytes(pdata)
    /\ ppc' = "done"
    /\ UNCHANGED <<pdata, uvars, svars, cvars, dvars, fvars, nvars, evars>>

\* the while loop over rcvBuf.checkFrame() in receiveMessages and rev_check,
\* for a handler that does not end the loop: the frames it steps over
RECURSIVE walkFrames(_, _, _)
walkFrames(b, type0, frameLength0) ==
    LET r == checkFrameBytes(b, type0, frameLength0)
    IN  IF r.ok
        THEN <<[kind |-> r.type, body |-> getFramePayload(b, r.frameLength)]>>
             \o walkFrames(nextBytes(b, r.frameLength), r.type, r.frameLength)
        ELSE <<>>

\* one WAKEUP of receiveMessages or rev_check: a ReceiveMessage is
\* constructed, client.receive puts the next n bytes in it, the loop walks
\* its frames, and the ReceiveMessage goes out of scope with what is left
ReceiveWakeup ==
    /\ \E n \in 1..Len(wire) :
           /\ got' = got \o walkFrames(SubSeq(wire, 1, n), 0, 0)
           /\ wire' = SubSeq(wire, n + 1, Len(wire))
    /\ UNCHANGED <<txq, rbuf, rtype, rlen, rok, uvars, svars, pvars>>

-----------------------------------------------------------------------------
(* WAV::ReadRest with its registers, lib_wav.cpp.  A register is a sequence *)
(* of 64 bits, a word one of 32 bits, the most significant bit first.  The  *)
(* bit 2 stands for a bit the language leaves undefined.                    *)

RegBits == 64
WordBits == 32

Pow2(n) == 2 ^ n

\* the number n, 0 <= n < 2^31, as w bits, the most significant first
Bits(n, w) == [q \in 1..w |-> IF w - q > 30 THEN 0 ELSE (n \div Pow2(w - q)) % 2]

\* the byte b repeated n times, as bits
Repeated(b, n) == [q \in 1..(8 * n) |-> Bits(b, 8)[((q - 1) % 8) + 1]]

\* reg << n and reg >> n on a 64-bit register, 0 <= n < 64
ShiftLeft(reg, n) == [q \in 1..RegBits |-> IF q + n <= RegBits THEN reg[q + n] ELSE 0]
ShiftRight(reg, n) == [q \in 1..RegBits |-> IF q - n >= 1 THEN reg[q - n] ELSE 0]

\* a | b and a & b, bit by bit
BitOr(a, b) == [q \in DOMAIN a |-> IF a[q] = 1 \/ b[q] = 1 THEN 1 ELSE 0]
BitAnd(a, b) == [q \in DOMAIN a |-> IF a[q] = 1 /\ b[q] = 1 THEN 1 ELSE 0]

\* the conversion of a 64-bit value to std::uint32_t
Low32(reg) == SubSeq(reg, RegBits - WordBits + 1, RegBits)

\* a value the language does not define
Undefined(w) == [q \in 1..w |-> 2]

\* ReadRest::ReadRest: memset(rest_, format_.getMuteByte(), sizeof(rest_))
ReadRest_ReadRest(channels, mute) ==
    [channel_count_ |-> channels, mute |-> mute, bit_count_ |-> 0,
     rest_ |-> [c \in 1..channels |-> Repeated(mute, 8)]]

\* ReadRest::push8(input, bits), where input[c] is a byte 0..255: for
\* bits = 8 the whole byte, else input[c] & ((1 << bits) - 1)
ReadRest_push8(r, input, bits) ==
    [r EXCEPT !.bit_count_ = r.bit_count_ + bits,
              !.rest_ = [c \in 1..r.channel_count_ |->
                            BitOr(ShiftLeft(r.rest_[c], bits),
                                  Bits(input[c] % Pow2(bits), RegBits))]]

\* ReadRest::full of a ReadRest that lowers bit_count_ by 24
ReadRest_fullLowersBy24(r) ==
    IF r.bit_count_ < 32
    THEN [rest |-> r, emitted |-> FALSE, output |-> <<>>]
    ELSE LET n == r.bit_count_ - 24
         IN  [rest |-> [r EXCEPT !.bit_count_ = n],
              emitted |-> TRUE,
              output |-> [c \in 1..r.channel_count_ |->
                             IF n >= RegBits THEN Undefined(WordBits)
                             ELSE Low32(ShiftRight(r.rest_[c], n))]]

\* ReadRest::full of a ReadRest that emits the newest 32 bits
ReadRest_fullNewest(r) ==
    IF r.bit_count_ < 32
    THEN [rest |-> r, emitted |-> FALSE, output |-> <<>>]
    ELSE [rest |-> [r EXCEPT !.bit_count_ = r.bit_count_ - 32],
          emitted |-> TRUE,
          output |-> [c \in 1..r.channel_count_ |-> Low32(r.rest_[c])]]

\* ReadRest::full: output[c] = rest_[c] >> bit_count_ after bit_count_ -= 32
ReadRest_full(r) ==
    IF r.bit_count_ < 32
    THEN [rest |-> r, emitted |-> FALSE, output |-> <<>>]
    ELSE LET n == r.bit_count_ - 32
         IN  [rest |-> [r EXCEPT !.bit_count_ = n],
              emitted |-> TRUE,
              output |-> [c \in 1..r.channel_count_ |->
                             IF n >= RegBits THEN Undefined(WordBits)
                             ELSE Low32(ShiftRight(r.rest_[c], n))]]

\* ReadRest::final: the buffer it leaves, one word per channel, or <<>> for
\* the cleared buffer.  The word is the mute byte four times, and-ed with
\* the number (32 - bit_count_) - 1 and or-ed with rest_[c] << (32 - bit_count_);
\* a shift by a negative count is undefined.
ReadRest_final(r) ==
    IF r.bit_count_ = 0 THEN <<>>
    ELSE [c \in 1..r.channel_count_ |->
             IF r.bit_count_ > 32 THEN Undefined(WordBits)
             ELSE BitOr(BitAnd(Repeated(r.mute, 4),
                               Bits((32 - r.bit_count_) - 1, WordBits)),
                        Low32(ShiftLeft(r.rest_[c], 32 - r.bit_count_)))]

\* the bytes pushed and the sizes of the pushes
PushBytes == {165, 15}
PushSizes == {8, 7, 1}

\* the columns of bytes for a ReadRest of the given number of channels
Columns(channels) ==
    IF channels = 1 THEN {<<b>> : b \in PushBytes}
    ELSE {<<b, 255 - b>> : b \in PushBytes}

\* no ReadRest is being driven
RestIdle ==
    /\ rr = ReadRest_ReadRest(1, 0)
    /\ pushed = <<>>
    /\ pushes = 0
    /\ words = <<>>
    /\ fin = "none"
    /\ rpc = "idle"

\* a ReadRest is constructed for a format of 1 or 2 channels with mute byte
\* 0x00 or 0x69
RestInit ==
    /\ \E channels \in {1, 2} : \E mute \in {0, 105} :
           /\ rr = ReadRest_ReadRest(channels, mute)
           /\ pushed = [c \in 1..channels |-> <<>>]
    /\ pushes = 0
    /\ words = <<>>
    /\ fin = "none"
    /\ rpc = "ready"

RestConst == UNCHANGED <<uvars, svars, cvars, pdata, plist, ppc, fvars, nvars, evars>>

\* rest.push8_msb(bytes, bits)
RestPush ==
    /\ rpc = "ready"
    /\ pushes < MaxPushes
    /\ pushes' = pushes + 1
    /\ \E input \in Columns(rr.channel_count_) : \E bits \in PushSizes :
           /\ rr' = ReadRest_push8(rr, input, bits)
           /\ pushed' = [c \in 1..rr.channel_count_ |->
                             pushed[c] \o Bits(input[c] % Pow2(bits), bits)]
    /\ rpc' = "pushed"
    /\ UNCHANGED <<words, fin>>
    /\ RestConst

\* rest.full(output)
RestFull ==
    /\ rpc = "pushed"
    /\ LET f == ReadRest_full(rr)
       IN  /\ rr' = f.rest
           /\ words' = IF f.emitted THEN Append(words, f.output) ELSE words
    /\ rpc' = "ready"
    /\ UNCHANGED <<pushed, pushes, fin>>
    /\ RestConst

\* rest.final(buffer)
RestFinal ==
    /\ rpc = "ready"
    /\ fin' = ReadRest_final(rr)
    /\ rpc' = "done"
    /\ UNCHANGED <<rr, pushed, pushes, words>>
    /\ RestConst

-----------------------------------------------------------------------------
(* WAV::readDSF, lib_wav.cpp.  The handle of a DSF source is a record with  *)
(* the dsd_ fields of the class, end_of_stream_, fail (file_.fail()), data  *)
(* (the bytes from the file cursor to the end of the data chunk entered)    *)
(* and file (the chunks behind it, each [id, size, bytes], size counting    *)
(* the 12 bytes of the chunk header).                                       *)

\* the number a sequence of bits stands for, the most significant first
RECURSIVE Value(_)
Value(bits) ==
    IF bits = <<>> THEN 0
    ELSE 2 * Value(SubSeq(bits, 1, Len(bits) - 1)) + bits[Len(bits)]

\* SWAP_BITS_TABLE[b]: the bits of b in reverse order
SWAP_BITS_TABLE(b) == Value([q \in 1..8 |-> Bits(b, 8)[9 - q]])

\* ReadRest::push8_lsb(input, bits)
ReadRest_push8_lsb(r, input, bits) ==
    ReadRest_push8(r, [c \in DOMAIN input |-> SWAP_BITS_TABLE(input[c])], bits)

\* the bits push8_lsb(input, bits) puts into the register of each channel
PushedLsb(input, bits) ==
    [c \in DOMAIN input |-> Bits(SWAP_BITS_TABLE(input[c]) % Pow2(bits), bits)]

\* readDSF, "Read until 'data' chunk": the loop over the chunk headers
RECURSIVE ScanDSF(_)
ScanDSF(w) ==
    IF w.fail \/ w.file = <<>>
    THEN [found |-> FALSE, bad |-> FALSE, wav |-> [w EXCEPT !.fail = TRUE]]
    ELSE LET ch == Head(w.file)
         IN  IF ch.size < 12
             THEN [found |-> FALSE, bad |-> TRUE,
                   wav |-> [w EXCEPT !.dsd_data_remaining_ = ch.size,
                                     !.file = Tail(w.file)]]
             ELSE IF ch.id = "data"
             THEN [found |-> TRUE, bad |-> FALSE,
                   wav |-> [w EXCEPT !.dsd_data_remaining_ = ch.size - 12,
                                     !.data = ch.bytes, !.file = Tail(w.file)]]
             ELSE ScanDSF([w EXCEPT !.dsd_data_remaining_ = ch.size - 12,
                                    !.file = Tail(w.file)])

\* the column of the block buffer at offset: one byte of each channel
DsfColumn(w, offset) ==
    [c \in 1..w.dsd_channel_count_ |-> w.dsd_buffer_[w.dsd_block_size_ * (c - 1) + offset + 1]]

\* The for loop of readDSF over the columns of the block buffer, from turn a
\* on.  st is [wav, rest, target, written, log, status]; target is
\* target_bytes, limit the size the buffer was resized to at entry.
RECURSIVE DsfColumns(_, _, _, _)
DsfColumns(st, a, turns, limit) ==
    LET w == st.wav
        nch == w.dsd_channel_count_
        offset == (Len(w.dsd_buffer_) - w.dsd_buffer_remaining_) \div nch
    IN  IF a >= turns \/ st.status # "run" THEN st
        ELSE IF w.dsd_samples_remaining_ < 8
        THEN IF w.dsd_samples_remaining_ # 0
             THEN LET input == DsfColumn(w, offset)
                      k == w.dsd_samples_remaining_
                  IN  [st EXCEPT !.rest = ReadRest_push8_lsb(st.rest, input, k),
                                 !.wav = [w EXCEPT !.dsd_buffer_remaining_ = 0],
                                 !.log = Append(st.log, [bits |-> k, input |-> input,
                                                         got |-> PushedLsb(input, k)])]
             ELSE st
        ELSE LET input == DsfColumn(w, offset)
                 f == ReadRest_full(ReadRest_push8_lsb(st.rest, input, 8))
                 w1 == [w EXCEPT !.dsd_buffer_remaining_ = w.dsd_buffer_remaining_ - nch,
                                 !.dsd_samples_remaining_ = w.dsd_samples_remaining_ - 8]
                 log1 == Append(st.log, [bits |-> 8, input |-> input,
                                         got |-> PushedLsb(input, 8)])
             IN  IF ~f.emitted
                 THEN DsfColumns([st EXCEPT !.rest = f.rest, !.wav = w1, !.log = log1],
                                 a + 1, turns, limit)
                 ELSE IF st.written + 4 * nch > limit
                 THEN [st EXCEPT !.rest = f.rest, !.wav = w1, !.log = log1,
                                 !.status = "overrun"]
                 ELSE DsfColumns([st EXCEPT !.rest = f.rest, !.wav = w1, !.log = log1,
                                            !.written = st.written + 4 * nch,
                                            !.target = st.target - 4 * nch],
                                 a + 1, turns, limit)

\* the while (target_bytes > 0) loop of readDSF
RECURSIVE DsfLoop(_, _)
DsfLoop(st, limit) ==
    IF st.status # "run" THEN st
    ELSE IF st.target = 0 THEN [st EXCEPT !.status = "ok"]
    ELSE LET scan == IF st.wav.dsd_data_remaining_ = 0 THEN ScanDSF(st.wav)
                     ELSE [found |-> TRUE, bad |-> FALSE, wav |-> st.wav]
             w == scan.wav
             group == w.dsd_block_size_ * w.dsd_channel_count_
         IN  IF scan.bad THEN [st EXCEPT !.wav = w, !.status = "false"]
             ELSE IF ~scan.found
             THEN [st EXCEPT !.wav = [w EXCEPT !.end_of_stream_ = TRUE], !.status = "ok"]
             ELSE IF w.dsd_buffer_remaining_ = 0 /\ w.dsd_data_remaining_ < group
             THEN [st EXCEPT !.wav = [w EXCEPT !.end_of_stream_ = TRUE],
                             !.written = 0, !.status = "false"]
             ELSE IF w.dsd_buffer_remaining_ = 0 /\ Len(w.data) < group
             THEN [st EXCEPT !.wav = [w EXCEPT !.end_of_stream_ = TRUE, !.fail = TRUE,
                                               !.data = <<>>],
                             !.written = 0, !.status = "false"]
             ELSE LET w1 == IF w.dsd_buffer_remaining_ # 0 THEN w
                            ELSE [w EXCEPT !.dsd_buffer_ = SubSeq(w.data, 1, group),
                                           !.data = SubSeq(w.data, group + 1, Len(w.data)),
                                           !.dsd_data_remaining_ = w.dsd_data_remaining_ - group,
                                           !.dsd_buffer_remaining_ = group]
                      size == Min(st.target, w1.dsd_buffer_remaining_)
                      st1 == DsfColumns([st EXCEPT !.wav = w1], 0,
                                        size \div w1.dsd_channel_count_, limit)
                  IN  IF st1 = [st EXCEPT !.wav = w1] /\ w1 = st.wav
                      THEN [st EXCEPT !.status = "hang"]
                      ELSE DsfLoop(st1, limit)

\* WAV::readDSF(buffer, target_bytes, rest): size is buffer.size() at return
readDSF(w, target_bytes, r) ==
    LET st == DsfLoop([wav |-> w, rest |-> r, target |-> target_bytes, written |-> 0,
                       log |-> <<>>, status |-> "run"], target_bytes)
    IN  [wav |-> st.wav, rest |-> st.rest, status |-> st.status, log |-> st.log,
         size |-> IF st.status # "ok" THEN 0
                  ELSE IF st.wav.end_of_stream_ THEN st.written ELSE target_bytes]

\* the DSF sources: 1 or 2 channels, blocks of 1 or 2 bytes per channel,
\* every byte 0x07, a data chunk of as many block groups as the samples
\* need, and nothing behind it
DsfSamples == {7, 11, 31}

Ceil(a, b) == (a + b - 1) \div b

\* a file whose data chunk holds one block group more than the samples need
DsfOpenedSpareGroup(channels, block, samples) ==
    LET n == (Ceil(Ceil(samples, 8), block) + 1) * block * channels
    IN  [dsd_data_remaining_ |-> 0, dsd_samples_remaining_ |-> samples,
         dsd_block_size_ |-> block, dsd_channel_count_ |-> channels,
         dsd_buffer_ |-> [q \in 1..(block * channels) |-> 0],
         dsd_buffer_remaining_ |-> 0, end_of_stream_ |-> FALSE, fail |-> FALSE,
         data |-> <<>>,
         file |-> <<[id |-> "data", size |-> 12 + n, bytes |-> [q \in 1..n |-> 7]]>>]

DsfOpened(channels, block, samples) ==
    LET groups == Ceil(Ceil(samples, 8), block)
        n == groups * block * channels
    IN  [dsd_data_remaining_ |-> 0, dsd_samples_remaining_ |-> samples,
         dsd_block_size_ |-> block, dsd_channel_count_ |-> channels,
         dsd_buffer_ |-> [q \in 1..(block * channels) |-> 0],
         dsd_buffer_remaining_ |-> 0, end_of_stream_ |-> FALSE, fail |-> FALSE,
         data |-> <<>>,
         file |-> <<[id |-> "data", size |-> 12 + n, bytes |-> [q \in 1..n |-> 7]]>>]

\* no DSF source is being read
DsfIdle ==
    /\ dsf = DsfOpened(1, 1, 8)
    /\ dcount = 0
    /\ dlog = <<>>
    /\ dres = "none"

DsfConst == UNCHANGED <<uvars, svars, cvars, pdata, plist, ppc, pushed, pushes, words,
                        fin, rpc, nvars, evars>>

\* the next source is opened: wav.open(...) of a DSF file whose format
\* agrees with the ReadRest in the number of its channels
DsfOpen ==
    /\ dres # "overrun" /\ dres # "hang"
    /\ dcount = 0 \/ is_empty(dsf)
    /\ dcount < MaxDsfSources
    /\ \E block \in {1, 2} : \E samples \in DsfSamples :
           dsf' = DsfOpened(rr.channel_count_, block, samples)
    /\ dcount' = dcount + 1
    /\ dlog' = <<>>
    /\ dres' = "none"
    /\ UNCHANGED rr
    /\ DsfConst

\* wav.read(tmp, target_bytes, rest) on the source
DsfRead ==
    /\ dcount > 0
    /\ ~is_empty(dsf)
    /\ dres # "overrun" /\ dres # "hang"
    /\ \E words4 \in {1, 2} :
           LET r == readDSF(dsf, 4 * rr.channel_count_ * words4, rr)
           IN  /\ dsf' = r.wav
               /\ rr' = r.rest
               /\ dlog' = dlog \o r.log
               /\ dres' = r.status
    /\ UNCHANGED dcount
    /\ DsfConst

-----------------------------------------------------------------------------
(* WAV::open, WAV::readPCM and WAV::readAIFF with the samples, lib_wav.cpp. *)
(* The handle is the record of OpenWAV with mode_ "PCM" or "AIFF", format_  *)
(* ([id, channel]) and convert_to_2ch_32bit_.  A buffer is a sequence of    *)
(* bytes 0..255; uint16_t and uint32_t views of it are little-endian.       *)

\* the FormatID open sets for d bytes per sample; type 3 is IEEE float
FormatOf(type, d) ==
    IF d = 1 THEN "FMT_PCM_SIGNED_8"
    ELSE IF d = 2 THEN "FMT_PCM_SIGNED_16"
    ELSE IF d = 3 THEN "FMT_PCM_SIGNED_24"
    ELSE IF type = 3 THEN "FMT_PCM_FLOAT_32"
    ELSE "FMT_PCM_SIGNED_32"

\* FormatConfigure::getWid, getBits, getFrameSize, isPCM, isSigned
getWid(f) ==
    IF f.id = "FMT_PCM_SIGNED_8" THEN 1
    ELSE IF f.id = "FMT_PCM_SIGNED_16" THEN 2
    ELSE IF f.id = "FMT_PCM_SIGNED_24" THEN 3
    ELSE 4
getBits(f) == 8 * getWid(f)
getFrameSize(f) == getWid(f) * f.channel
isPCM(f) == f.id \in {"FMT_PCM_SIGNED_8", "FMT_PCM_SIGNED_16", "FMT_PCM_SIGNED_24",
                      "FMT_PCM_SIGNED_32", "FMT_PCM_FLOAT_32"}
isSigned(f) == f.id # "FMT_PCM_FLOAT_32"

\* the byte at position k (from 0) of the audio of every file of the model
PcmPattern == <<52, 18, 128, 255, 1, 165, 127, 0>>
PcmByte(k) == PcmPattern[(k % Len(PcmPattern)) + 1]

\* open, "if (convert_to_2ch_32bit)": the value of convert_to_2ch_32bit_
NormalizeAnyChannels(flag, f) == flag /\ isPCM(f) /\ isSigned(f) /\ getBits(f) < 32
Normalize(flag, f) ==
    flag /\ isPCM(f) /\ isSigned(f) /\ getBits(f) < 32 /\ f.channel <= 2

\* the handle WAV::open leaves for a RIFF file (fmt, LIST, data) or an AIFF
\* file (COMM, SSND) whose samples take d bytes each and whose data chunk
\* declares and holds n bytes
WAV_open(mode, flag, type, channels, d, n) ==
    LET f == [id |-> FormatOf(type, d), channel |-> channels]
    IN  [mode_ |-> mode, src |-> 1, pos |-> 0, title_ |-> "",
         end_of_stream_ |-> FALSE, fail |-> FALSE,
         file |-> IF mode = "PCM" THEN <<Chunk("LIST", 2), Chunk("data", n)>>
                  ELSE <<Chunk("SSND", n)>>,
         pcm_data_remaining_ |-> 0,
         format_ |-> f,
         convert_to_2ch_32bit_ |-> Normalize(flag, f)]

\* WAV::getFormat
getFormat(w) ==
    IF w.convert_to_2ch_32bit_
    THEN [id |-> "FMT_PCM_SIGNED_32", channel |-> 2]
    ELSE w.format_

\* readPCM and readAIFF, the first lines: the target in source bytes
SourceTarget(w, target_bytes) ==
    IF w.convert_to_2ch_32bit_
    THEN (target_bytes * getFrameSize(w.format_)) \div getFrameSize(getFormat(w))
    ELSE target_bytes

\* the bytes file_.read stored for the places a read buffer names
SampleBytes(buffer) == [k \in DOMAIN buffer |-> PcmByte(buffer[k][2])]

\* uint32_t values as 32 bits: t << n, a | b is BitOr, and the 4 bytes a
\* store of t through get_32() leaves
Shl32(t, n) == [q \in 1..WordBits |-> IF q + n <= WordBits THEN t[q + n] ELSE 0]
Stored32(t) == <<Value(SubSeq(t, 25, 32)), Value(SubSeq(t, 17, 24)),
                 Value(SubSeq(t, 9, 16)), Value(SubSeq(t, 1, 8))>>

\* the uint32_t t the conversion loops compute for sample a (from 0)
Sample32(bytes, wid, a) ==
    IF wid = 1 THEN Shl32(Bits(bytes[a + 1], WordBits), 24)
    ELSE IF wid = 2
    THEN Shl32(Bits(bytes[2 * a + 1] + 256 * bytes[2 * a + 2], WordBits), 16)
    ELSE LET t1 == Bits(bytes[3 * a + 3], WordBits)
             t2 == BitOr(Shl32(t1, 8), Bits(bytes[3 * a + 2], WordBits))
             t3 == BitOr(Shl32(t2, 8), Bits(bytes[3 * a + 1], WordBits))
         IN  Shl32(t3, 8)

RECURSIVE Flatten(_)
Flatten(ss) == IF ss = <<>> THEN <<>> ELSE Head(ss) \o Flatten(Tail(ss))

\* "if (convert_to_2ch_32bit_)" at the end of readPCM and of readAIFF
to_2ch_32bitOnce(w, bytes) ==
    LET wid == getWid(w.format_)
        frame_count == Len(bytes) \div wid
    IN  Flatten([a \in 1..frame_count |-> Stored32(Sample32(bytes, wid, a - 1))])
to_2ch_32bit(w, bytes) ==
    LET wid == getWid(w.format_)
        frame_count == Len(bytes) \div wid
    IN  Flatten([a \in 1..frame_count |->
                    LET t == Stored32(Sample32(bytes, wid, a - 1))
                    IN  IF w.format_.channel = 1 THEN t \o t ELSE t])

\* readAIFF, "Swap bytes for big-endian format"
swapBytes(w, bytes) ==
    LET wid == getWid(w.format_)
        n == Len(bytes) \div wid
    IN  [k \in DOMAIN bytes |->
            IF k > n * wid THEN bytes[k]
            ELSE bytes[((k - 1) \div wid) * wid + (wid - ((k - 1) % wid))]]

\* WAV::readPCM, all of it: in is the bytes read from the file
WAV_readPCM(w, target_bytes, ioOk) ==
    LET r == readPCM(w, SourceTarget(w, target_bytes), ioOk)
        in == SampleBytes(r.buffer)
    IN  [wav |-> r.wav, ok |-> r.ok, in |-> in,
         buffer |-> IF w.convert_to_2ch_32bit_ THEN to_2ch_32bit(w, in) ELSE in]

\* readAIFF: "Read until 'SSND' chunk"
RECURSIVE ScanAIFF(_, _)
ScanAIFF(file, remaining) ==
    IF file = <<>>
    THEN [found |-> FALSE, file |-> <<>>, remaining |-> remaining, fail |-> TRUE]
    ELSE IF Head(file).id = "SSND"
    THEN [found |-> TRUE, file |-> Tail(file), remaining |-> Head(file).size,
          fail |-> FALSE]
    ELSE ScanAIFF(Tail(file), Head(file).size)

\* WAV::readAIFF, all of it
WAV_readAIFF(w, target_bytes, ioOk) ==
    LET scan == IF w.pcm_data_remaining_ = 0
                THEN ScanAIFF(w.file, w.pcm_data_remaining_)
                ELSE [found |-> TRUE, file |-> w.file,
                      remaining |-> w.pcm_data_remaining_, fail |-> w.fail]
        t == Min(SourceTarget(w, target_bytes), scan.remaining)
        w1 == [w EXCEPT !.file = scan.file, !.pcm_data_remaining_ = scan.remaining,
                        !.fail = scan.fail]
        in == [k \in 1..t |-> PcmByte(w.pos + k - 1)]
        swapped == swapBytes(w, in)
    IN  IF ~scan.found
        THEN [wav |-> [w1 EXCEPT !.end_of_stream_ = TRUE],
              buffer |-> <<>>, ok |-> TRUE, in |-> <<>>]
        ELSE IF ~ioOk /\ t > 0
        THEN [wav |-> [w1 EXCEPT !.fail = TRUE],
              buffer |-> <<>>, ok |-> FALSE, in |-> <<>>]
        ELSE [wav |-> [w1 EXCEPT !.pcm_data_remaining_ = scan.remaining - t,
                                 !.pos = w.pos + t],
              buffer |-> IF w.convert_to_2ch_32bit_ THEN to_2ch_32bit(w, swapped)
                         ELSE swapped,
              ok |-> TRUE, in |-> in]

\* what the headers of the files of the model declare: the format type,
\* the channels and the bytes of one sample
PcmHeaders ==
    {h \in [type : {1, 3}, channels : {1, 2, 3}, d : {1, 2, 3, 4}] : h.type = 3 => h.d = 4}

\* the handle before open
PcmIdle ==
    /\ pcm = [mode_ |-> "none"]
    /\ pflag = FALSE
    /\ pdecl = 0
    /\ pconsumed = 0
    /\ preturned = 0
    /\ plast = [T |-> 0, before |-> 0, in |-> <<>>, out |-> <<>>, ok |-> TRUE]

PcmConst == UNCHANGED <<uvars, svars, cvars, pdata, plist, ppc, dvars, fvars, evars>>

\* wav.open(filename, convert_to_2ch_32bit) of a RIFF or an AIFF file
PcmOpen ==
    /\ pcm.mode_ = "none"
    /\ \E mode \in {"PCM", "AIFF"} : \E flag \in BOOLEAN : \E h \in PcmHeaders :
       \E n \in 0..MaxPcmBytes :
           /\ mode = "AIFF" => h.type = 1
           /\ pcm' = WAV_open(mode, flag, h.type, h.channels, h.d, n)
           /\ pflag' = flag
           /\ pdecl' = n
    /\ UNCHANGED <<pconsumed, preturned, plast>>
    /\ PcmConst

\* wav.read(buffer, T, rest) of the open source; the file holds the bytes
\* its data chunk declares
PcmRead ==
    /\ pcm.mode_ # "none"
    /\ ~is_empty(pcm)
    /\ \E T \in 1..MaxPcmTarget :
           LET r == IF pcm.mode_ = "PCM" THEN WAV_readPCM(pcm, T, TRUE)
                    ELSE WAV_readAIFF(pcm, T, TRUE)
           IN  /\ pcm' = r.wav
               /\ pconsumed' = pconsumed + Len(r.in)
               /\ preturned' = preturned + Len(r.buffer)
               /\ plast' = [T |-> T, before |-> r.wav.pcm_data_remaining_ + Len(r.in),
                            in |-> r.in, out |-> r.buffer, ok |-> r.ok]
    /\ UNCHANGED <<pflag, pdecl>>
    /\ PcmConst

-----------------------------------------------------------------------------
(* A RIFF file of several chunks read with readPCM.  The file holds what its *)
(* chunks declare.                                                           *)

\* the chunks behind the fmt chunk: up to MaxChunks of them, data chunks and
\* others, each of up to MaxChunkBytes bytes
ChunkFiles ==
    UNION {[1..n -> {Chunk(id, size) : id \in {"LIST", "data"}, size \in 0..MaxChunkBytes}] :
           n \in 1..MaxChunks}

ChunkIdle ==
    /\ kwav = [mode_ |-> "none"]
    /\ kfile = <<>>
    /\ klog = <<>>
    /\ klast = [T |-> 0, buffer |-> <<>>, before |-> 0, left |-> <<>>, eos |-> FALSE]

\* wav.open of the file: the handle stands behind the fmt chunk
ChunkInit ==
    /\ kfile \in ChunkFiles
    /\ kwav = [OpenWAV("PCM", 1, 0) EXCEPT !.file = kfile]
    /\ klog = <<>>
    /\ klast = [T |-> 0, buffer |-> <<>>, before |-> 0, left |-> kfile, eos |-> FALSE]

ChunkConst == UNCHANGED <<uvars, svars, cvars, pdata, plist, ppc, dvars, fvars, nvars, qvars,
                          mvars, tvars, ovars>>

\* wav.read(buffer, T, rest) while the source is not empty.  The bytes of the
\* buffer were read from the chunk the handle stands in after the scan,
\* chunk c of the file, from the place behind the bytes read before.
ChunkRead ==
    /\ ~is_empty(kwav)
    /\ \E T \in 1..MaxChunkTarget :
           LET r == readPCM(kwav, T, TRUE)
               c == Len(kfile) - Len(r.wav.file)
               n == Len(r.buffer)
               from == IF c = 0 THEN 0 ELSE kfile[c].size - r.wav.pcm_data_remaining_ - n
           IN  /\ kwav' = r.wav
               /\ klog' = klog \o [k \in 1..n |-> <<c, from + k - 1>>]
               /\ klast' = [T |-> T, buffer |-> r.buffer, before |-> kwav.pcm_data_remaining_,
                            left |-> kwav.file, eos |-> r.wav.end_of_stream_]
    /\ UNCHANGED kfile
    /\ ChunkConst

-----------------------------------------------------------------------------
(* The chunk walk of readDFFChunk, one pass of a loop at a time.  What the    *)
(* reads of the file return (the id and the size of a chunk header, or the   *)
(* failure of the read at the end of the file) is drawn from small sets: any *)
(* sequence of chunk headers may stand in a file.  The counters are the      *)
(* uint64_t of DFFState, scaled to UIntMod.                                  *)

\* the chunk ids of the outer loop and of the PROP loop ("COMT" and "CMPR"
\* stand for the ids that are skipped)
WalkIds == {"FVER", "PROP", "DSD ", "COMT"}
PropIds == {"FS  ", "CHNL", "CMPR"}

WalkIdle ==
    /\ dff = [chunk_size |-> 0, current_size |-> 0, read_reset |-> 0]
    /\ dpc = "idle"
    /\ dwrap = "none"
    /\ dsteps = 0

\* WAV::open behind "FRM8": chunk_size is the size the form declares less
\* the 4 bytes of the form type
WalkInit ==
    /\ \E form \in 4..MaxForm :
           dff = [chunk_size |-> USub(form, 4), current_size |-> 0, read_reset |-> 0]
    /\ dpc = "top"
    /\ dwrap = "none"
    /\ dsteps = 0

WalkConst == UNCHANGED <<uvars, svars, cvars, pdata, plist, ppc, dvars, fvars, nvars, qvars,
                         mvars, kvars, ovars>>

\* the first of the subtractions subs that wraps, once one has; each is
\* <<line, a, b>> for the statement a -= b at that line of lib_wav.cpp
FirstWrap(subs) ==
    IF dwrap # "none" THEN dwrap
    ELSE IF \E k \in DOMAIN subs : subs[k][2] < subs[k][3]
    THEN subs[CHOOSE k \in DOMAIN subs :
                  /\ subs[k][2] < subs[k][3]
                  /\ \A n \in 1..(k - 1) : subs[n][2] >= subs[n][3]][1]
    ELSE "none"

\* the walk leaves the counters as c at place p; subs are the subtractions
\* the pass made
WalkTo(p, c, subs) ==
    /\ dff' = c
    /\ dpc' = p
    /\ dwrap' = FirstWrap(subs)
    /\ dsteps' = dsteps + 1
    /\ WalkConst

\* one pass of "while (dff_state_.chunk_size > 0 && !file_.read(s, 4).fail())"
\* up to the PROP loop, the DSD chunk or the seek over the rest of the chunk
WalkTop ==
    /\ dpc = "top"
    /\ dsteps < MaxWalkSteps
    /\ \E readOk \in BOOLEAN : \E id \in WalkIds : \E size \in 0..MaxWalkSize :
       LET cs == dff.chunk_size
           cs1 == USub(cs, 4)
           cs2 == USub(cs1, 8)
           cs3 == USub(cs2, 4)
           cu3 == USub(size, 4)
           head == <<<<"1109", cs, 4>>, <<"1117", cs1, 8>>>>
           skip(c, u, subs) ==
               WalkTo("top", [dff EXCEPT !.chunk_size = USub(c, u), !.current_size = u],
                      subs \o <<<<"1271", c, u>>>>)
       IN  IF ~(cs > 0 /\ readOk)
           THEN \* the loop ends: read_func is called with len = 0
                WalkTo("end", [dff EXCEPT !.current_size = 0], <<>>)
           ELSE IF cs1 < 8
           THEN WalkTo("failed", [dff EXCEPT !.chunk_size = cs1], <<<<"1109", cs, 4>>>>)
           ELSE IF cs2 < size
           THEN WalkTo("failed", [dff EXCEPT !.chunk_size = cs2, !.current_size = size], head)
           ELSE IF id \in {"FVER", "PROP"} /\ size < 4
           THEN WalkTo("failed", [dff EXCEPT !.chunk_size = cs2, !.current_size = size], head)
           ELSE IF id = "FVER"
           THEN skip(cs3, cu3, head \o <<<<"1127", size, 4>>, <<"1128", cs2, 4>>>>)
           ELSE IF id = "PROP"
           THEN WalkTo("prop", [dff EXCEPT !.chunk_size = cs3, !.current_size = cu3],
                       head \o <<<<"1134", size, 4>>, <<"1135", cs2, 4>>>>)
           ELSE IF id = "DSD " /\ size # 0
           THEN WalkTo("data", [dff EXCEPT !.chunk_size = cs2, !.current_size = size,
                                           !.read_reset = size], head)
           ELSE skip(cs2, size, head)

\* one pass of "while (dff_state_.current_size > 0 && !file_.read(s, 4).fail())"
\* inside a PROP chunk; when the loop ends, the seek over the rest of PROP
WalkProp ==
    /\ dpc = "prop"
    /\ dsteps < MaxWalkSteps
    /\ \E readOk \in BOOLEAN : \E id \in PropIds : \E size \in 0..MaxWalkSize :
       LET cs == dff.chunk_size
           cu == dff.current_size
           cs1 == USub(cs, 4)
           cu1 == USub(cu, 4)
           cs2 == USub(cs1, 8)
           cu2 == USub(cu1, 8)
           fixed == IF id = "FS  " THEN 4 ELSE IF id = "CHNL" THEN 2 ELSE 0
           rest_ == size - fixed
           cu3 == USub(cu2, fixed)
           cs3 == USub(cs2, fixed)
           h1 == <<<<"1138", cs, 4>>, <<"1139", cu, 4>>>>
           h2 == h1 \o <<<<"1146", cs1, 8>>, <<"1147", cu1, 8>>>>
       IN  IF ~(cu > 0 /\ readOk)
           THEN WalkTo("top", [dff EXCEPT !.chunk_size = USub(cs, cu)],
                       <<<<"1271", cs, cu>>>>)
           ELSE IF cs1 < 8 \/ cu1 < 8
           THEN WalkTo("failed", [dff EXCEPT !.chunk_size = cs1, !.current_size = cu1], h1)
           ELSE IF cu2 < size \/ size < fixed
           THEN WalkTo("failed", [dff EXCEPT !.chunk_size = cs2, !.current_size = cu2], h2)
           ELSE WalkTo("prop", [dff EXCEPT !.chunk_size = USub(cs3, rest_),
                                           !.current_size = USub(cu3, rest_)],
                       h2 \o <<<<"1157", cu2, fixed>>, <<"1158", cs2, fixed>>,
                               <<"1179", cs3, rest_>>, <<"1180", cu3, rest_>>>>)

\* a call of readDFFChunk with read_reset # 0: processDFF with a read_func
\* that takes target bytes of the DSD chunk, or all that is left of it
WalkData ==
    /\ dpc = "data"
    /\ dsteps < MaxWalkSteps
    /\ \E target \in {4, 8} :
       LET original == dff.read_reset
           used == Min(original, target)
       IN  WalkTo(IF original - used = 0 THEN "top" ELSE "data",
                  [dff EXCEPT !.read_reset = original - used,
                              !.current_size = USub(dff.current_size, used),
                              !.chunk_size = USub(dff.chunk_size, used)],
                  <<<<"1095", dff.current_size, used>>, <<"1096", dff.chunk_size, used>>>>)

-----------------------------------------------------------------------------
(* WAV::open: the text of the metadata.  utf16utf8 and its helpers, and the  *)
(* title and the track index a file is left with.  A char16_t is 0..65535, a *)
(* char a byte 0..255, a string a sequence of characters.                    *)

\* a | b and a & b on bytes, and char(x): the low 8 bits of x
Or8(a, b) == Value(BitOr(Bits(a, 8), Bits(b, 8)))
And8(a, b) == Value(BitAnd(Bits(a, 8), Bits(b, 8)))
Char(x) == x % 256

IsU16HighSurrogate(ch) == 55296 <= ch /\ ch < 56320
IsU16LowSurrogate(ch) == 56320 <= ch /\ ch < 57344

\* ConvChU32ToU8: u8Ch is left as it was when the code point is refused
ConvChU32ToU8(u32Ch) ==
    IF u32Ch > 1114111
    THEN [ok |-> FALSE, u8Ch |-> <<>>]
    ELSE IF u32Ch < 128
    THEN [ok |-> TRUE, u8Ch |-> <<Char(u32Ch), 0, 0, 0>>]
    ELSE IF u32Ch < 2048
    THEN [ok |-> TRUE,
          u8Ch |-> <<Or8(192, Char(u32Ch \div 64)),
                     Or8(128, And8(Char(u32Ch), 63)), 0, 0>>]
    ELSE IF u32Ch < 65536
    THEN [ok |-> TRUE,
          u8Ch |-> <<Or8(224, Char(u32Ch \div 4096)),
                     Or8(128, And8(Char(u32Ch \div 64), 63)),
                     Or8(128, And8(Char(u32Ch), 63)), 0>>]
    ELSE [ok |-> TRUE,
          u8Ch |-> <<Or8(240, Char(u32Ch \div 262144)),
                     Or8(128, And8(Char(u32Ch \div 4096), 63)),
                     Or8(128, And8(Char(u32Ch \div 64), 63)),
                     Or8(128, And8(Char(u32Ch), 63))>>]

\* ConvChU16ToU32 of the pair u16Ch
ConvChU16ToU32(u16Ch) ==
    IF IsU16HighSurrogate(u16Ch[1])
    THEN IF IsU16LowSurrogate(u16Ch[2])
         THEN [ok |-> TRUE,
               u32Ch |-> 65536 + (u16Ch[1] - 55296) * 1024 + (u16Ch[2] - 56320)]
         ELSE IF u16Ch[2] = 0 THEN [ok |-> TRUE, u32Ch |-> u16Ch[1]]
         ELSE [ok |-> FALSE, u32Ch |-> 0]
    ELSE IF IsU16LowSurrogate(u16Ch[1])
    THEN IF u16Ch[2] = 0 THEN [ok |-> TRUE, u32Ch |-> u16Ch[1]]
         ELSE [ok |-> FALSE, u32Ch |-> 0]
    ELSE [ok |-> TRUE, u32Ch |-> u16Ch[1]]

ConvChU16ToU8(u16Ch) ==
    LET c == ConvChU16ToU32(u16Ch)
    IN  IF ~c.ok THEN [ok |-> FALSE, u8Ch |-> <<>>] ELSE ConvChU32ToU8(c.u32Ch)

\* utf16utf8: every unit c of str is converted as the pair (c, 0), and the
\* bytes of u8Ch that are not 0 are appended
utf16utf8(str) ==
    Flatten([k \in 1..Len(str) |->
                SelectSeq(ConvChU16ToU8(<<str[k], 0>>).u8Ch, LAMBDA b : b # 0)])

\* open, the frame with enc == 1: "s16.resize(info.size() / 2); memcpy(...)"
U16Of(info) == [k \in 1..(Len(info) \div 2) |-> info[2 * k - 1] + 256 * info[2 * k]]

\* the code units of the frames of the model: A, U+0080, U+07FF, U+0800,
\* U+FEFF, and the surrogates of U+1F600
Units16 == {65, 128, 2047, 2048, 65279, 55357, 56832}

\* the bytes of a frame that holds the units str, low byte first
FrameBytes(str) == Flatten([k \in 1..Len(str) |-> <<str[k] % 256, str[k] \div 256>>])

\* title() and index() of a handle on which open has not returned
NotOpened == [title |-> <<>>, index |-> -1]

OpenIdle ==
    /\ uinfo = <<>>
    /\ u8out = <<-1>>
    /\ ofile = [container |-> "none", title |-> <<>>, track |-> 0, stem |-> <<>>]
    /\ oinfo = NotOpened

OpenConst == UNCHANGED <<uvars, svars, cvars, pdata, plist, ppc, dvars, fvars, nvars, qvars,
                         mvars, kvars, tvars>>

\* a text frame of up to MaxUnits16 code units
UtfInit ==
    /\ \E str \in SeqsUpTo(Units16, MaxUnits16) : uinfo = FrameBytes(str)
    /\ u8out = <<-1>>
    /\ ofile = [container |-> "none", title |-> <<>>, track |-> 0, stem |-> <<>>]
    /\ oinfo = NotOpened

\* open, lines 641-645: the frame is decoded
UtfDecode ==
    /\ u8out = <<-1>>
    /\ u8out' = utf16utf8(U16Of(uinfo))
    /\ UNCHANGED <<uinfo, ofile, oinfo>>
    /\ OpenConst

\* "Extract track index from title or filename if not set", one of the two
\* blocks: the index the first two characters of str give, else track_index_
LeadingIndex(str, track_index_) ==
    IF Len(str) >= 2 /\ IsDigit(str[1])
    THEN IF IsDigit(str[2]) THEN DigitVal(str[1]) * 10 + DigitVal(str[2])
         ELSE DigitVal(str[1])
    ELSE track_index_

\* The end of a successful WAV::open of file f, whose metadata gave title
\* and track ("" and 0 if none did).  The branch of an M4A file returns
\* true at line 704, in front of the two fallbacks.
OpenTitleIndex(f) ==
    IF f.container = "M4A"
    THEN [title |-> f.title, index |-> f.track]
    ELSE LET t1 == IF f.track = 0 THEN LeadingIndex(f.title, f.track) ELSE f.track
             t2 == IF t1 = 0 THEN LeadingIndex(f.stem, t1) ELSE t1
         IN  [title |-> IF f.title = <<>> THEN f.stem ELSE f.title, index |-> t2]

\* the files of the model
Containers == {"RIFF", "DSF", "DSDIFF", "AIFF", "M4A"}
Titles == {<<>>, <<"5">>, <<"0", "7", " ", "a">>, <<"7", "a">>, <<"a", "b">>}
Stems == {<<"x">>, <<"1", "2", "b">>, <<"3", "c">>, <<"9">>, <<"s", "o", "n", "g">>}

OpenInit ==
    /\ ofile \in [container : Containers, title : Titles, track : 0..MaxTrack, stem : Stems]
    /\ oinfo = NotOpened
    /\ uinfo = <<>>
    /\ u8out = <<-1>>

\* wav.open(filename, ...) returns true
OpenFile ==
    /\ oinfo = NotOpened
    /\ oinfo' = OpenTitleIndex(ofile)
    /\ UNCHANGED <<uinfo, u8out, ofile>>
    /\ OpenConst

-----------------------------------------------------------------------------
(* Request commands on a connected session and the socket they read from.   *)
(* The host answers the requests in order, each with frames of one header,   *)
(* at any time after the request; a receive reads frames from the front of   *)
(* the socket, and what it does not read stays there.                        *)

\* the headers of the host's replies
ReplyHeaders ==
    {Hdr("Status", Chars_Play), Hdr("Status", Chars_Pause),
     Hdr("LastTime", <<"4", "2">>), Hdr("Tag", <<"a">>)}

\* the outputs as the commands set them before the request is sent
DefaultOutputs == [status |-> MPC_STATUS_DISCONNECTED, time_seconds |-> -1, tags |-> <<>>]

\* the frame of the received buffer whose header made the handler return
\* true (history)
EndingFrame(c, batch, out) ==
    CHOOSE f \in DOMAIN batch : /\ recv_frames(c, SubSeq(batch, 1, f), out, FALSE).done
                                /\ \A g \in 1..(f - 1) :
                                       ~recv_frames(c, SubSeq(batch, 1, g), out, FALSE).done

ReplyIdle ==
    /\ qsock = <<>>
    /\ qreq = 0
    /\ qhost = 0
    /\ qreplies = 0
    /\ qcmd = "none"
    /\ qpc = "idle"
    /\ qout = DefaultOutputs
    /\ qres = "none"
    /\ qsince = 0
    /\ qused = {}

ReplyConst == UNCHANGED <<uvars, svars, cvars, pdata, plist, ppc, dvars, fvars, nvars,
                          mvars, kvars, tvars, ovars>>

\* get_play_status, get_current_time or get_tag_list up to its call of
\* receiveMessages, the send succeeding
ReplyRequest ==
    /\ qpc = "idle"
    /\ qreq < MaxRequests
    /\ \E c \in RequestCommands : qcmd' = c
    /\ qreq' = qreq + 1
    /\ qout' = DefaultOutputs
    /\ qsince' = 0
    /\ qused' = {}
    /\ qpc' = "drain"
    /\ UNCHANGED <<qsock, qhost, qreplies, qres>>
    /\ ReplyConst

\* the host sends a frame in reply to the request it is at or to a later one
ReplyHost ==
    /\ qreplies < MaxReplies
    /\ \E k \in qhost..qreq : \E h \in ReplyHeaders :
           /\ k >= 1
           /\ qhost' = k
           /\ qsock' = Append(qsock, CmdFrame(<<h>>) @@ [req |-> k])
    /\ qreplies' = qreplies + 1
    /\ UNCHANGED <<qreq, qcmd, qpc, qout, qres, qsince, qused>>
    /\ ReplyConst

\* receiveMessages, client.wait reports WAKEUP: one receive into a fresh
\* buffer and the frame loop over it
ReplyWakeup ==
    /\ qpc = "drain"
    /\ \E n \in 1..Len(qsock) :
           LET batch == SubSeq(qsock, 1, n)
               r == recv_frames(qcmd, batch, qout, FALSE)
               walked == IF r.done THEN EndingFrame(qcmd, batch, qout) ELSE n
           IN  /\ qsock' = SubSeq(qsock, n + 1, Len(qsock))
               /\ qout' = r.out
               /\ qused' = qused \cup {batch[f].req : f \in 1..walked}
               /\ qsince' = sinceLastrecv(r.seen, batch, qsince)
               /\ IF r.done
                  THEN qpc' = "idle" /\ qres' = CommandResult(MPC_SUCCESS)
                  ELSE UNCHANGED <<qpc, qres>>
    /\ UNCHANGED <<qreq, qhost, qreplies, qcmd>>
    /\ ReplyConst

\* receiveMessages, client.wait reports TIMEOUT after 100 ms: nothing is
\* there to be read
ReplyWaitTimeout ==
    /\ qpc = "drain"
    /\ qsock = <<>>
    /\ qsince' = Min(qsince + 100, CommandTimeout(qcmd))
    /\ IF qsince + 100 >= CommandTimeout(qcmd)
       THEN qpc' = "idle" /\ qres' = CommandResult(MPC_ERROR_TIMEOUT)
       ELSE UNCHANGED <<qpc, qres>>
    /\ UNCHANGED <<qsock, qreq, qhost, qreplies, qcmd, qout, qused>>
    /\ ReplyConst

-----------------------------------------------------------------------------
(* SendMessage as an object, lib_memory_play_client.hpp: the header bytes    *)
(* and the number of payload bytes.  ACQUA::Buffer::resize keeps the bytes   *)
(* that stay within the new size.                                            *)

\* SendMessage::resize(s): Buffer::resize and payloadHeader().setLength
SendMessage_resize(b, s) ==
    [b EXCEPT !.size = s,
              !.header = write3Byte(s + b.baseSize) \o SubSeq(b.header, 4, 9)]

\* SendMessage::size()
SendMessage_size(b) == (PayloadHeaderSize + b.baseSize + b.size) - PayloadHeaderSize - b.baseSize

\* SendMessage::increaseSize(p), on which addData, addString and addHeader
\* rest
increaseSize(b, p) == SendMessage_resize(b, SendMessage_size(b) + p)

\* SendMessage::clear
SendMessage_clear(b) == SendMessage_resize(b, 0)

\* SendMessage::SendMessage(ps) followed by the constructor of
\* SendMessageData(tag) or of SendMessageFrames
SendMessage_new(baseSize, type, frameHeader) ==
    LET b0 == SendMessage_resize([baseSize |-> baseSize, size |-> 0, header |-> Undefined(9),
                                  frameHeader |-> Undefined(baseSize)], 0)
    IN  [b0 EXCEPT !.header = SubSeq(b0.header, 1, 3) \o write1Byte(type)
                                  \o write1Byte(0) \o write4Byte(0),
                   !.frameHeader = frameHeader]

\* the sizes of the data, strings and headers added
AddSizes == {1, 5, 8388608}

MsgIdle ==
    /\ msg = SendMessage_new(DataHeaderSize, 0, DataHeader)
    /\ mkind = 0
    /\ mops = 0

\* SendMessageData(tag) or SendMessageFrames() is constructed
MsgInit ==
    /\ \E kind \in {0, 1, 2} :
           /\ msg = IF kind = 1 THEN SendMessage_new(HeadersHeaderSize, 1, HeadersHeader)
                    ELSE SendMessage_new(DataHeaderSize, kind, DataHeader)
           /\ mkind = kind
    /\ mops = 0

MsgConst == UNCHANGED <<uvars, svars, cvars, pdata, plist, ppc, dvars, fvars, nvars, qvars,
                        mkind, kvars, tvars, ovars>>

\* addData(data) or addString(str) of n bytes on a SendMessageData
MsgAddData ==
    /\ mkind # 1
    /\ mops < MaxMsgOps
    /\ \E n \in AddSizes : msg' = increaseSize(msg, n)
    /\ mops' = mops + 1
    /\ MsgConst

\* addHeader(k, v) on a SendMessageFrames: k.size() + v.size() + 3 bytes
MsgAddHeader ==
    /\ mkind = 1
    /\ mops < MaxMsgOps
    /\ \E klen \in {1, 5} : \E vlen \in {0} \cup AddSizes :
           msg' = increaseSize(msg, klen + vlen + 3)
    /\ mops' = mops + 1
    /\ MsgConst

\* clear()
MsgClear ==
    /\ mops < MaxMsgOps
    /\ msg' = SendMessage_clear(msg)
    /\ mops' = mops + 1
    /\ MsgConst

-----------------------------------------------------------------------------
(* Specifications *)

\* an upload that is not running, for the session's specification
UploadIdle ==
    /\ wavformat = "PCM"
    /\ loop_mode = FALSE
    /\ wavs = <<>>
    /\ i = 1
    /\ buf = <<>>
    /\ tCount = 0
    /\ rest = ReadRestInit
    /\ pc = "idle"
    /\ ackRet = "none"
    /\ result = "none"
    /\ cause = "none"
    /\ sent = <<>>
    /\ ackSeen = FALSE
    /\ ackOther = FALSE
    /\ ackStarted = 0
    /\ ackDone = 0
    /\ failure = {}
    /\ readlog = <<>>

\* one upload, from the call of mpc_upload_audio to its return
Init == UploadInit /\ SessionInit /\ CodecInit /\ ParseIdle /\ RestIdle /\ DsfIdle /\ PcmIdle /\ ReplyIdle /\ MsgIdle /\ ChunkIdle /\ WalkIdle /\ OpenIdle
Next ==
    \/ UploadAnnounce
    \/ UploadRead
    \/ UploadFlush
    \/ UploadTag
    \/ UploadFinal
    \/ UploadLoop
    \/ UploadQuit
    \/ AckWakeup
    \/ AckWaitTimeout
    \/ AckWaitError
Spec == Init /\ [][Next]_vars

\* one session, from ControlSession::open on
SessionSpecInit == UploadIdle /\ SessionInit /\ CodecInit /\ ParseIdle /\ RestIdle /\ DsfIdle /\ PcmIdle /\ ReplyIdle /\ MsgIdle /\ ChunkIdle /\ WalkIdle /\ OpenIdle
SessionSpecNext ==
    \/ SimpleCommand
    \/ RequestCommand
    \/ DrainWaitError
    \/ DrainWaitTimeout
    \/ DrainWakeup
SessionSpec == SessionSpecInit /\ [][SessionSpecNext]_vars

\* one ReceiveMessage fed by a peer
FrameSpecInit == UploadIdle /\ SessionInit /\ CodecInit /\ ParseIdle /\ RestIdle /\ DsfIdle /\ PcmIdle /\ ReplyIdle /\ MsgIdle /\ ChunkIdle /\ WalkIdle /\ OpenIdle
FrameSpecNext ==
    \/ FrameSend
    \/ FrameSendRaw
    \/ FrameReceive
    \/ FrameCheck
    \/ FrameNext
FrameSpec == FrameSpecInit /\ [][FrameSpecNext]_vars

\* one ReceiveMessageFrames built from a payload
ParseSpecInit == UploadIdle /\ SessionInit /\ CodecInit /\ ParseInit /\ RestIdle /\ DsfIdle /\ PcmIdle /\ ReplyIdle /\ MsgIdle /\ ChunkIdle /\ WalkIdle /\ OpenIdle
ParseSpecNext ==
    \/ ParseFrames
ParseSpec == ParseSpecInit /\ [][ParseSpecNext]_vars

\* one ReadRest, pushed into with full() tried after every push, then final()
RestSpecInit == UploadIdle /\ SessionInit /\ CodecInit /\ ParseIdle /\ RestInit /\ DsfIdle /\ PcmIdle /\ ReplyIdle /\ MsgIdle /\ ChunkIdle /\ WalkIdle /\ OpenIdle
RestSpecNext ==
    \/ RestPush
    \/ RestFull
    \/ RestFinal
RestSpec == RestSpecInit /\ [][RestSpecNext]_vars

\* a RIFF or AIFF source opened and read to its end
PcmSpecInit ==
    UploadIdle /\ SessionInit /\ CodecInit /\ ParseIdle /\ RestIdle /\ DsfIdle /\ PcmIdle /\ ReplyIdle /\ MsgIdle /\ ChunkIdle /\ WalkIdle /\ OpenIdle
PcmSpecNext ==
    \/ PcmOpen
    \/ PcmRead
PcmSpec == PcmSpecInit /\ [][PcmSpecNext]_vars

\* request commands on a session whose host replies at any time
ReplySpecInit ==
    UploadIdle /\ SessionInit /\ CodecInit /\ ParseIdle /\ RestIdle /\ DsfIdle /\ PcmIdle
        /\ ReplyIdle /\ MsgIdle /\ ChunkIdle /\ WalkIdle /\ OpenIdle
ReplySpecNext ==
    \/ ReplyRequest
    \/ ReplyHost
    \/ ReplyWakeup
    \/ ReplyWaitTimeout
ReplySpec == ReplySpecInit /\ [][ReplySpecNext]_vars

\* a send message built by a sequence of operations
MsgSpecInit ==
    UploadIdle /\ SessionInit /\ CodecInit /\ ParseIdle /\ RestIdle /\ DsfIdle /\ PcmIdle
        /\ ReplyIdle /\ MsgInit /\ ChunkIdle /\ WalkIdle /\ OpenIdle
MsgSpecNext ==
    \/ MsgAddData
    \/ MsgAddHeader
    \/ MsgClear
MsgSpec == MsgSpecInit /\ [][MsgSpecNext]_vars

\* DSF sources opened and read one after the other with one ReadRest
DsfSpecInit ==
    /\ UploadIdle /\ SessionInit /\ CodecInit /\ ParseIdle /\ DsfIdle /\ PcmIdle /\ ReplyIdle /\ MsgIdle /\ ChunkIdle /\ WalkIdle /\ OpenIdle
    /\ \E channels \in {1, 2} : rr = ReadRest_ReadRest(channels, 105)
    /\ pushed = <<>> /\ pushes = 0 /\ words = <<>> /\ fin = "none" /\ rpc = "idle"
DsfSpecNext ==
    \/ DsfOpen
    \/ DsfRead
DsfSpec == DsfSpecInit /\ [][DsfSpecNext]_vars

\* the receive loop of the controller fed by a peer that sends frames built
\* by the library's senders
\* one well-formed DSF source read until it is empty, by the loop
\* "while (!wav->is_empty()) wav->read(...)" of mpc_upload_audio, with up to
\* MaxCarried bits left in the ReadRest by the partial push of a source before
DsfEndInit ==
    /\ UploadIdle /\ SessionInit /\ CodecInit /\ ParseIdle /\ PcmIdle /\ ReplyIdle /\ MsgIdle
    /\ ChunkIdle /\ WalkIdle /\ OpenIdle
    /\ \E channels \in {1, 2} : \E block \in 1..MaxDsfBlock : \E samples \in 1..MaxDsfSamples :
       \E carried \in 0..MaxCarried :
           /\ rr = ReadRest_push8_lsb(ReadRest_ReadRest(channels, 105),
                                      [c \in 1..channels |-> 7], carried)
           /\ dsf = DsfOpened(channels, block, samples)
    /\ dcount = 1 /\ dlog = <<>> /\ dres = "none"
    /\ pushed = <<>> /\ pushes = 0 /\ words = <<>> /\ fin = "none" /\ rpc = "idle"
DsfEndNext ==
    \/ DsfRead
\* the condition under which DsfRead can be taken
DsfReadable == dcount > 0 /\ ~is_empty(dsf) /\ dres # "overrun" /\ dres # "hang"
\* the loop reads as long as the source is not empty: weak fairness of
\* DsfRead, WF_vars(DsfRead), written with the condition that enables it
DsfEndFair == []<>(~DsfReadable) \/ []<><<DsfRead>>_vars
DsfEndSpec == DsfEndInit /\ [][DsfEndNext]_vars /\ DsfEndFair

\* the chunk walk of a DSDIFF file
WalkSpecInit ==
    /\ UploadIdle /\ SessionInit /\ CodecInit /\ ParseIdle /\ RestIdle /\ DsfIdle /\ PcmIdle
    /\ ReplyIdle /\ MsgIdle /\ ChunkIdle /\ WalkInit /\ OpenIdle
WalkSpecNext ==
    \/ WalkTop
    \/ WalkProp
    \/ WalkData
WalkSpec == WalkSpecInit /\ [][WalkSpecNext]_vars

\* the UTF-16 text frames of an ID3v2.3 chunk, decoded
UtfSpecInit ==
    /\ UploadIdle /\ SessionInit /\ CodecInit /\ ParseIdle /\ RestIdle /\ DsfIdle /\ PcmIdle
    /\ ReplyIdle /\ MsgIdle /\ ChunkIdle /\ WalkIdle /\ UtfInit
UtfSpecNext ==
    \/ UtfDecode
UtfSpec == UtfSpecInit /\ [][UtfSpecNext]_vars

\* files of every container opened
OpenSpecInit ==
    /\ UploadIdle /\ SessionInit /\ CodecInit /\ ParseIdle /\ RestIdle /\ DsfIdle /\ PcmIdle
    /\ ReplyIdle /\ MsgIdle /\ ChunkIdle /\ WalkIdle /\ OpenInit
OpenSpecNext ==
    \/ OpenFile
OpenSpec == OpenSpecInit /\ [][OpenSpecNext]_vars

\* a RIFF file of several chunks read to its end
ChunkSpecInit ==
    UploadIdle /\ SessionInit /\ CodecInit /\ ParseIdle /\ RestIdle /\ DsfIdle /\ PcmIdle
        /\ ReplyIdle /\ MsgIdle /\ ChunkInit /\ WalkIdle /\ OpenIdle
ChunkSpecNext ==
    \/ ChunkRead
ChunkSpec == ChunkSpecInit /\ [][ChunkSpecNext]_vars

StreamSpecInit == UploadIdle /\ SessionInit /\ CodecInit /\ ParseIdle /\ RestIdle /\ DsfIdle /\ PcmIdle /\ ReplyIdle /\ MsgIdle /\ ChunkIdle /\ WalkIdle /\ OpenIdle
StreamSpecNext ==
    \/ FrameSend
    \/ ReceiveWakeup
StreamSpec == StreamSpecInit /\ [][StreamSpecNext]_vars

-----------------------------------------------------------------------------
(* Properties of mpc_upload_audio, checked under Spec *)

\* the frames among the first n sent that are followed by an ack wait: all
\* but the format announcement
AckableSent(n) == Cardinality({j \in 1..n : j <= Len(sent) /\ sent[j].role # "fmt"})

\* the Data chunks among the first n frames the transport accepted
ChunksSent(n) ==
    Cardinality({j \in 1..n : j <= Len(sent) /\ sent[j].number > 0 /\ sent[j].ok})

\* the positions of mpc_upload_audio where the next statement may be a send
SendPoints == {"announce", "read", "flush", "tag", "final", "loop", "quit"}

\* C1: the Data chunk numbered N + 1 (N >= 1) is handed to the transport only
\* after chunk N was sent and the ack wait that followed chunk N received a
\* Command frame with a header DataStack or DataTag whose value is N:
\* whatever the host replies, the frame sent next after chunk N finds that
\* ack received.
C1_AckBeforeNextChunk ==
    \A k \in 1..Len(sent) :
        sent[k].number >= 2 =>
            \E j \in 1..(k - 1) :
                /\ sent[j].number = sent[k].number - 1
                /\ sent[j].ok
                /\ sent[j].count = sent[k].number - 1
                /\ sent[j + 1].acked

\* a successful upload of at least two Data chunks
C1_Witness ==
    /\ result = MPC_SUCCESS
    /\ \E k \in 1..Len(sent) : sent[k].number >= 2 /\ sent[k].acked

\* C2: each ackable send is followed by exactly one ack wait before the next
\* frame is sent: every frame was sent when as many ack waits had begun and
\* had completed as ackable frames had been sent before it, and wherever the
\* engine may send next or has returned Success the completed ack waits are
\* as many as the ackable frames sent.
C2_OneAckWaitPerSend ==
    /\ \A j \in 1..Len(sent) :
           /\ sent[j].started = AckableSent(j - 1)
           /\ sent[j].done = AckableSent(j - 1)
    /\ (pc \in SendPoints \/ result = MPC_SUCCESS) =>
           /\ ackDone = AckableSent(Len(sent))
           /\ ackStarted = ackDone

\* an upload returned Success after Data chunks, title tags and the QUIT tag
C2_Witness ==
    /\ result = MPC_SUCCESS
    /\ ackDone >= 4
    /\ \E j \in 1..Len(sent) : sent[j].number > 0

\* C3: tCount is the number of Data chunks sent: a Data chunk raises it by
\* one and a Tag leaves it, so that the ack awaited after a Tag is the one
\* for the last Data chunk (0 when no Data chunk was sent).
C3_TagsShareCounter ==
    /\ tCount = ChunksSent(Len(sent))
    /\ \A j \in 1..Len(sent) :
           /\ sent[j].count = ChunksSent(j)
           /\ sent[j].type = 2 => sent[j].count = ChunksSent(j - 1)
    /\ \A j \in 2..Len(sent) :
           sent[j - 1].type = 2 => sent[j].acked

\* a title tag acknowledged with 0, Data chunks after it, and tags
\* acknowledged with their count
C3_Witness ==
    /\ result = MPC_SUCCESS
    /\ tCount >= 1
    /\ \E j \in 1..Len(sent) : sent[j].type = 2 /\ sent[j].count = 0
    /\ sent[Len(sent)].type = 2 /\ sent[Len(sent)].count = tCount

\* C4: an upload that returns Success has sent the QUIT tag as its last
\* frame, the LOOP tag just before it exactly when loop_mode is set, and
\* every other frame (Data chunks, title tags, the tail chunk) before them.
C4_SentinelsLast ==
    result = MPC_SUCCESS =>
        LET n == Len(sent)
            m == IF loop_mode THEN n - 1 ELSE n
        IN  /\ n >= 2
            /\ sent[n].type = 2 /\ sent[n].text = QuitTag
            /\ loop_mode => (m >= 2 /\ sent[m].type = 2 /\ sent[m].text = LoopTag)
            /\ \A j \in 1..(m - 1) :
                   /\ sent[j].text \notin {LoopTag, QuitTag}
                   /\ sent[j].role \in {"fmt", "data", "title", "tail"}
            /\ \A k \in 1..Len(wavs) :
                   \E j \in 1..(m - 1) : sent[j].role = "title" /\ sent[j].src = k

\* a successful upload in loop mode whose reassembler left a tail chunk
C4_Witness ==
    /\ result = MPC_SUCCESS
    /\ loop_mode
    /\ \E j \in 1..Len(sent) : sent[j].role = "tail"

\* C5: the first frame is a Data frame holding only the FormatID, sent
\* without an ack wait and without raising tCount; then the sources are
\* processed in their order, each one's Data chunks before exactly one Tag
\* with its title, which comes before every frame of the next source.
C5_AnnounceThenSourcesInOrder ==
    /\ Len(sent) >= 1 =>
           /\ sent[1].type = 0
           /\ sent[1].data = FormatIDBytes
           /\ sent[1].count = 0
    /\ Len(sent) >= 2 => sent[2].started = 0
    /\ pc # "announce" => Len(sent) >= 1
    /\ \A j \in 2..Len(sent) :
           /\ sent[j].data # FormatIDBytes
           /\ sent[j].src > 0 =>
                  /\ \A h \in 2..(j - 1) : sent[h].src > 0 => sent[h].src <= sent[j].src
                  /\ sent[j].role = "data" =>
                         \A h \in 2..(j - 1) :
                             ~(sent[h].role = "title" /\ sent[h].src = sent[j].src)
                  /\ sent[j].role = "title" =>
                         /\ sent[j].type = 2
                         /\ sent[j].text = wavs[sent[j].src].title_
                         /\ \A h \in 2..(j - 1) :
                                ~(sent[h].role = "title" /\ sent[h].src = sent[j].src)
    /\ \A k \in 1..Len(wavs) :
           (k < i /\ result \in {"none", MPC_SUCCESS}) =>
               \E j \in 2..Len(sent) :
                   sent[j].role = "title" /\ sent[j].src = k /\ sent[j].ok

\* two sources uploaded, the second with Data chunks
C5_Witness ==
    /\ result = MPC_SUCCESS
    /\ Len(wavs) >= 2
    /\ \E j \in 1..Len(sent) : sent[j].role = "data" /\ sent[j].src = 2
    /\ \E j \in 1..Len(sent) : sent[j].role = "data" /\ sent[j].src = 1

\* C6: frames that hold no header DataStack or DataTag parsing to tCount
\* (Data frames, other keys, other values, frames behind an unknown or
\* unfinished one) neither end an ack wait nor fail the upload: as long as
\* only such frames were received the wait goes on, or ends by the
\* transport's timeout or error.
C6_OtherFramesIgnored ==
    /\ (ackOther /\ ~ackSeen) =>
           \/ pc = "ack" /\ result = "none"
           \/ pc = "done" /\ cause \in {"timeout", "wait"}
    /\ (pc \in SendPoints /\ ackStarted > 0) => ackSeen

\* a wait that received frames without a matching ack and is still waiting
C6_Witness ==
    /\ pc = "ack"
    /\ ackOther
    /\ ~ackSeen
    /\ tCount >= 1

\* C7: when the transport's wait times out in an ack wait, mpc_upload_audio
\* returns MPC_ERROR_TIMEOUT and sends no further frame: the frame whose ack
\* was awaited stays the last one.
C7_TimeoutAborts ==
    cause = "timeout" =>
        /\ result = MPC_ERROR_TIMEOUT
        /\ pc = "done"
        /\ ~ENABLED Next
        /\ ackStarted = AckableSent(Len(sent))
        /\ ackDone = ackStarted - 1

\* an ack wait timed out before the LOOP and QUIT tags were sent
C7_Witness ==
    /\ cause = "timeout"
    /\ ~ackSeen
    /\ sent[Len(sent)].role = "data"

\* C8 as stated: once a send, a receive or a read of a source has failed,
\* the upload sends no further frame and never returns Success.
C8_FailureAborts ==
    failure # {} => (result # MPC_SUCCESS /\ ~ENABLED Next)

\* an upload returned Success although a send, a receive or a read failed
C8_SuccessAfterFailure ==
    /\ result = MPC_SUCCESS
    /\ failure # {}

\* C9 as stated: the code a failed upload returns names what made it fail:
\* MPC_ERROR_CONNECTION when the transport failed (a wait reporting ERROR, a
\* failed send), MPC_ERROR_TIMEOUT only when an ack wait timed out.
C9_CodeNamesCategory ==
    (pc = "done" /\ result # MPC_SUCCESS) =>
        /\ cause \in {"send", "wait"} => result = MPC_ERROR_CONNECTION
        /\ result = MPC_ERROR_TIMEOUT => cause = "timeout"

\* the transport's wait reported ERROR and the upload returned Timeout
C9_TimeoutOnTransportError ==
    /\ cause = "wait"
    /\ result = MPC_ERROR_TIMEOUT

-----------------------------------------------------------------------------
(* Properties of ControlSession, checked under SessionSpec *)

\* C10 as stated: after a command failed on the connection the session is
\* not connected, and the command issued next sends nothing and returns
\* MPC_ERROR_CONNECTION.
C10_FailedSessionStaysFailed ==
    prevConnFailed =>
        /\ ~connected
        /\ ssent = <<>>
        /\ spc = "idle"
        /\ sresult = MPC_ERROR_CONNECTION

\* a command sent its request although the command before it had failed on
\* the connection
C10_SentAfterFailure ==
    /\ prevConnFailed
    /\ ssent # <<>>

-----------------------------------------------------------------------------
(* Properties of the frame codec, checked under FrameSpec *)

\* the bytes of the frames txq[from], txq[from + 1], .. in order
RECURSIVE BytesFrom(_)
BytesFrom(from) ==
    IF from > Len(txq) THEN <<>> ELSE txq[from].bytes \o BytesFrom(from + 1)

\* the first frame sent that was not yet taken off the buffer
FrontFrame == txq[Len(got) + 1]

\* C11: a frame of kind 0, 1 or 2 built by the sender is accepted by
\* checkFrame once its bytes are in the buffer, getType and getFramePayload
\* return its kind and its body (sub-header and payload), and next() takes
\* 9 + Len(body) bytes off the front: what stays in the buffer and in flight
\* are the bytes of the frames that follow, unchanged.
C11_FrameRoundTrip ==
    /\ Len(got) <= Len(txq)
    /\ \A j \in 1..Len(got) :
           /\ got[j].kind = txq[j].kind
           /\ got[j].body = txq[j].body
           /\ Len(txq[j].bytes) = PayloadHeaderSize + Len(txq[j].body)
    /\ rbuf \o wire = BytesFrom(Len(got) + 1)
    /\ (rok = "false" /\ Len(got) < Len(txq) /\ FrontFrame.lib) =>
           Len(rbuf) < Len(FrontFrame.bytes)

\* a Tag frame and a Command frame with a header were sent and taken off
\* the buffer while bytes of the second followed the first in the buffer
C11_Witness ==
    /\ Len(got) = 2
    /\ got[1].kind = 2 /\ Len(got[1].body) = 3
    /\ got[2].kind = 1 /\ Len(got[2].body) > HeadersHeaderSize
    /\ txq[1].lib /\ txq[2].lib

\* are the bytes of the front frame f all in a buffer of n bytes?
FrameComplete(f, n) ==
    /\ n >= PayloadHeaderSize
    /\ n >= PayloadHeaderSize + Len(f.body)
    /\ f.kind = 1 => n >= PayloadHeaderSize + HeadersHeaderSize

\* C12: while the buffer holds fewer than 9 bytes, fewer than 9 + length
\* bytes or, for a Command frame, fewer than 9 + 6 bytes, checkFrame returns
\* false and the bytes received stay as they are; once the missing bytes
\* are there, checkFrame returns true for that frame (of kind 0, 1 or 2).
C12_IncompleteFrameWaits ==
    /\ rok # "none" =>
           /\ Len(got) = Len(txq) => (rbuf = <<>> /\ rok = "false")
           /\ (Len(got) < Len(txq) /\ FrontFrame.kind \in {0, 1, 2}) =>
                  (rok = "true" <=> FrameComplete(FrontFrame, Len(rbuf)))
    /\ Len(got) <= Len(txq)
    /\ rbuf \o wire = BytesFrom(Len(got) + 1)

\* a Command frame of length 0 that checkFrame refused with its 9 bytes in
\* the buffer was accepted when bytes of the next frame had arrived
C12_Witness ==
    /\ rok = "true"
    /\ Len(got) < Len(txq)
    /\ FrontFrame.kind = 1 /\ FrontFrame.body = <<>>
    /\ Len(rbuf) >= PayloadHeaderSize + HeadersHeaderSize

-----------------------------------------------------------------------------
(* Properties of the receive side of ControlSession, checked under SessionSpec *)

\* C13 as stated: a complete frame of a kind other than 0, 1 and 2 is a
\* fatal protocol error: the reply drain that came upon it has ended, the
\* command has returned a failure and the session is no longer connected.
C13_UnknownKindIsFatal ==
    badKind =>
        /\ spc = "idle"
        /\ sresult # MPC_SUCCESS
        /\ ~connected

\* a command that came upon a frame of an unknown kind returned Success on a
\* session that is still connected
C13_SuccessAfterUnknownKind ==
    /\ badKind
    /\ spc = "idle"
    /\ sresult = MPC_SUCCESS
    /\ connected

-----------------------------------------------------------------------------
(* Properties of the controller's receive loop, checked under StreamSpec *)

\* C14 as stated: the bytes of a frame that is incomplete after one receive
\* are kept, so the frames handed to the loop body are the frames sent, each
\* once and in arrival order, and once every byte sent was received every
\* frame sent was handed over.
C14_SplitFramesAssembled ==
    /\ Len(got) <= Len(txq)
    /\ \A j \in 1..Len(got) :
           got[j] = [kind |-> txq[j].kind, body |-> txq[j].body]
    /\ wire = <<>> => Len(got) = Len(txq)

\* every byte of the one frame sent was received, in more than one receive,
\* and the frame was never handed over
C14_SplitFrameLost ==
    /\ Len(txq) = 1
    /\ wire = <<>>
    /\ got = <<>>

-----------------------------------------------------------------------------
(* Properties of ReceiveMessageFrames, checked under ParseSpec *)

\* the text of a frame payload: what follows the 6-byte sub-header
TextOf(data) == SubSeq(data, HeadersHeaderSize + 1, Len(data))

\* the positions of the line terminators of a text
Terminators(t) == {q \in 1..Len(t) : t[q] = CR \/ t[q] = LF}

\* the k-th smallest member of a set of numbers
Nth(S, k) == CHOOSE x \in S : Cardinality({y \in S : y < x}) = k - 1

\* the lines of a text: what lies between two terminators, before the first
\* and behind the last
LinesOf(t) ==
    LET T == Terminators(t)
        n == Cardinality(T)
    IN  [k \in 1..(n + 1) |->
            LET from == IF k = 1 THEN 1 ELSE Nth(T, k - 1) + 1
                to == IF k = n + 1 THEN Len(t) ELSE Nth(T, k) - 1
            IN  IF from > to THEN <<>> ELSE SubSeq(t, from, to)]

\* the pair a line stands for: split at its first '=', or the whole line
\* with an empty value
PairOf(line) ==
    LET eqs == {q \in 1..Len(line) : line[q] = EQ}
    IN  IF eqs = {} THEN [key |-> line, value |-> <<>>]
        ELSE LET q == CHOOSE q \in eqs : \A r \in eqs : q <= r
             IN  [key |-> IF q = 1 THEN <<>> ELSE SubSeq(line, 1, q - 1),
                  value |-> IF q = Len(line) THEN <<>> ELSE SubSeq(line, q + 1, Len(line))]

HasKey(pr) == pr.key # <<>>

\* the pairs of the lines of a text that have a key, in line order
ExpectedPairs(t) ==
    LET lines == LinesOf(t)
    IN  SelectSeq([k \in DOMAIN lines |-> PairOf(lines[k])], HasKey)

\* C15: the list ReceiveMessageFrames builds from a frame payload is, for
\* the text behind the 6-byte sub-header cut into lines at every CR and LF
\* (the last line needing no terminator), the pair of each line in line
\* order, duplicates kept, where a line is split at its first '=' (later
\* ones stay in the value), a line without '=' is (line, ""), and lines
\* whose key is empty are left out.
C15_ParsedPairs ==
    ppc = "done" => plist = ExpectedPairs(TextOf(pdata))

\* the text "K=v=v", without a terminator, was parsed to the one pair
\* (K, "v=v")
C15_Witness ==
    /\ ppc = "done"
    /\ pdata = HeadersHeader \o <<75, EQ, 118, EQ, 118>>
    /\ plist = <<[key |-> <<75>>, value |-> <<118, EQ, 118>>]>>

-----------------------------------------------------------------------------
(* Properties of the request commands, checked under SessionSpec *)

\* the positions of the headers of key k among the headers heard
KeyAt(k) == {q \in 1..Len(heard) : heard[q].key = k}

\* the first of a non-empty set of positions
First(S) == CHOOSE q \in S : \A r \in S : q <= r

\* the playback status a Status value stands for
StatusOf(v) ==
    CASE v = Chars_Disconnect -> MPC_STATUS_DISCONNECTED
      [] v = Chars_Play -> MPC_STATUS_PLAYING
      [] v = Chars_Pause -> MPC_STATUS_PAUSED

\* C16: a get_play_status on a connected session sends one Command frame
\* with the single header Request=Status; as long as no header of key
\* Status was heard its handler has not ended the drain, and once one was
\* heard the command has returned Success with the status its value stands
\* for: Disconnect is Disconnected, Play is Playing, Pause is Paused.
C16_StatusReply ==
    (cmd = "get_play_status" /\ ssent # <<>>) =>
        /\ ssent = <<Hdr("Request", Chars_Status)>>
        /\ KeyAt("Status") = {} =>
               /\ drainCode # MPC_SUCCESS
               /\ status = MPC_STATUS_DISCONNECTED
        /\ KeyAt("Status") # {} =>
               /\ spc = "idle"
               /\ drainCode = MPC_SUCCESS
               /\ sresult = MPC_SUCCESS
               /\ status = StatusOf(heard[First(KeyAt("Status"))].value)

\* get_play_status heard LastTime=42 and then Status=Play and returned
\* Playing
C16_Witness ==
    /\ cmd = "get_play_status"
    /\ spc = "idle"
    /\ Len(heard) = 2 /\ heard[1].key = "LastTime" /\ heard[2] = Hdr("Status", Chars_Play)
    /\ status = MPC_STATUS_PLAYING
    /\ sresult = MPC_SUCCESS

\* the number a decimal numeral stands for
NumberOf(v) == CHOOSE n \in 0..99 : Dec(n) = v

\* the positions of the headers heard that end the drain of
\* get_current_time
TimeEnds ==
    {q \in 1..Len(heard) :
        \/ heard[q].key = "LastTime"
        \/ heard[q].key = "Status" /\ heard[q].value \in {Chars_Disconnect, Chars_Pause}}

\* C17: get_current_time on a connected session goes on draining, with -1
\* as its answer so far, as long as it heard neither a LastTime header nor
\* Status=Disconnect nor Status=Pause (Status=Play and every other header
\* are passed over); with the first of those it returns Success, and its
\* answer is N if that header is LastTime=N and -1 if it is a Status.
C17_TimeReply ==
    (cmd = "get_current_time" /\ ssent # <<>>) =>
        /\ TimeEnds = {} =>
               /\ drainCode # MPC_SUCCESS
               /\ time_seconds = -1
        /\ TimeEnds # {} =>
               /\ spc = "idle"
               /\ drainCode = MPC_SUCCESS
               /\ sresult = MPC_SUCCESS
               /\ time_seconds = IF heard[First(TimeEnds)].key = "LastTime"
                                 THEN NumberOf(heard[First(TimeEnds)].value)
                                 ELSE -1

\* get_current_time heard Status=Play and then LastTime=42 and returned 42
C17_Witness ==
    /\ cmd = "get_current_time"
    /\ spc = "idle"
    /\ Len(heard) >= 2
    /\ heard[1] = Hdr("Status", Chars_Play)
    /\ heard[2] = Hdr("LastTime", <<"4", "2">>)
    /\ time_seconds = 42

\* the positions of the headers heard whose key is not Tag
NonTags == {q \in 1..Len(heard) : heard[q].key # "Tag"}

\* the values of the Tag headers heard before the first header of another
\* key
LeadingTags ==
    LET n == IF NonTags = {} THEN Len(heard) ELSE First(NonTags) - 1
    IN  [q \in 1..n |-> heard[q].value]

\* C18: the tags of a get_tag_list on a connected session are the values of
\* the Tag headers heard before the first header of another key, in
\* arrival order, whatever frames brought them; that first other header
\* ends the command with Success, and Tag headers behind it add nothing.
C18_TagReply ==
    (cmd = "get_tag_list" /\ ssent # <<>>) =>
        /\ tags = LeadingTags
        /\ NonTags = {} => drainCode # MPC_SUCCESS
        /\ NonTags # {} =>
               /\ spc = "idle"
               /\ drainCode = MPC_SUCCESS
               /\ sresult = MPC_SUCCESS

\* get_tag_list heard Tag=a from one frame, Tag=b and Other=x from the
\* next, and returned the tags a, b
C18_Witness ==
    /\ cmd = "get_tag_list"
    /\ spc = "idle"
    /\ heard = <<Hdr("Tag", <<"a">>), Hdr("Tag", <<"b">>), Hdr("Other", <<"x">>)>>
    /\ tags = <<<<"a">>, <<"b">>>>

-----------------------------------------------------------------------------
(* Properties of receiveMessages and of seek, checked under SessionSpec *)

\* C19: in receiveMessages the time the deadline is measured from is the
\* later of its start and the last header a Command frame brought: frames
\* of other kinds and Command frames without a header leave it alone.  The
\* function returns Timeout only when timeoutMs has passed since then,
\* where timeoutMs is 1250 for get_current_time and 500 for the other
\* commands.
C19_DeadlineFromLastHeader ==
    /\ (spc = "drain" \/ drainCode # "none") =>
           /\ sinceRecv = sinceHeader
           /\ timeoutMs = IF cmd = "get_current_time" THEN 1250 ELSE 500
    /\ drainCode = MPC_ERROR_TIMEOUT => sinceHeader >= timeoutMs

\* get_current_time heard Status=Play, and its receiveMessages returned
\* Timeout 1250 ms later
C19_Witness ==
    /\ cmd = "get_current_time"
    /\ drainCode = MPC_ERROR_TIMEOUT
    /\ heard = <<Hdr("Status", Chars_Play)>>
    /\ sinceHeader = 1250

\* the characters of "+60" and "-60"
Chars_Plus60 == <<"+", "6", "0">>
Chars_Minus60 == <<"-", "6", "0">>

\* C20: seek sends one Command frame with the single header Seek, whose
\* value is "+60" for 60, "0" for 0 and "-60" for -60, and seek_absolute
\* sends the decimal without a sign ("60" for 60, "0" for 0); neither reads
\* a reply.
C20_SeekHeader ==
    /\ (cmd = "seek" /\ ssent # <<>>) =>
           /\ ssent = <<Hdr("Seek", CASE carg = 60 -> Chars_Plus60
                                      [] carg = 0 -> <<"0">>
                                      [] carg = -60 -> Chars_Minus60)>>
           /\ spc = "idle" /\ drainCode = "none" /\ heard = <<>>
    /\ (cmd = "seek_absolute" /\ ssent # <<>>) =>
           /\ ssent = <<Hdr("Seek", CASE carg = 60 -> <<"6", "0">>
                                      [] carg = 0 -> <<"0">>)>>
           /\ spc = "idle" /\ drainCode = "none" /\ heard = <<>>

\* seek(60) sent Seek=+60 and returned Success
C20_Witness ==
    /\ cmd = "seek"
    /\ carg = 60
    /\ ssent = <<Hdr("Seek", Chars_Plus60)>>
    /\ sresult = MPC_SUCCESS
    /\ spc = "idle"

-----------------------------------------------------------------------------
(* Properties of WAV::ReadRest, checked under RestSpec *)

\* the bits pushed per channel
PushedBits == Len(pushed[1])

\* the words final() added per channel: one when it left a buffer
FinalWords == IF fin = <<>> THEN 0 ELSE 1

\* C21: with full() tried after each push, P bits pushed per channel give
\* floor(P/32) words per channel out of full(); final() adds one word per
\* channel when P is not a multiple of 32 and nothing when it is, so that
\* ceil(P/32) words are emitted in all.
C21_WordCount ==
    /\ rpc \in {"ready", "done"} =>
           /\ Len(words) = PushedBits \div 32
           /\ \A j \in 1..Len(words) : Len(words[j]) = rr.channel_count_
    /\ rpc = "done" =>
           /\ FinalWords = 1 <=> PushedBits % 32 # 0
           /\ fin # <<>> => Len(fin) = rr.channel_count_
           /\ Len(words) + FinalWords = (PushedBits + 31) \div 32

\* 39 bits were pushed to a 2-channel ReadRest: one word per channel came
\* out of full() and one more out of final()
C21_Witness ==
    /\ rpc = "done"
    /\ rr.channel_count_ = 2
    /\ PushedBits = 39
    /\ Len(words) = 1
    /\ Len(fin) = 2

\* C23: the j-th word full() emits for a channel is made of the 32 oldest
\* bits pushed for that channel and not yet emitted, the earliest bit
\* first, which is (rest_[c] >> (bit_count_ - 32)) & 0xFFFFFFFF at the
\* call; four bytes b1 b2 b3 b4 pushed whole to an empty ReadRest come out
\* as the word b1 b2 b3 b4 and leave bit_count_ at 0.
C23_WordsAreOldestBits ==
    /\ \A j \in 1..Len(words) : \A c \in 1..rr.channel_count_ :
           words[j][c] = SubSeq(pushed[c], 32 * (j - 1) + 1, 32 * j)
    /\ (rpc = "ready" /\ pushes = 4 /\ PushedBits = 32) =>
           /\ rr.bit_count_ = 0
           /\ Len(words) = 1

\* the byte 0xA5 was pushed four times to a 1-channel ReadRest, and full()
\* emitted 0xA5A5A5A5 and left bit_count_ at 0
C23_Witness ==
    /\ rpc = "ready"
    /\ rr.channel_count_ = 1
    /\ pushed[1] = Repeated(165, 4)
    /\ words = << <<Repeated(165, 4)>> >>
    /\ rr.bit_count_ = 0

\* the word the claim describes for channel c: the bit_count_ bits held,
\* then the low bits of the mute byte repeated
PaddedWord(c) ==
    LET k == rr.bit_count_
    IN  SubSeq(pushed[c], PushedBits - k + 1, PushedBits)
        \o SubSeq(Repeated(rr.mute, 4), k + 1, WordBits)

\* C24 as stated: final() with 1 <= bit_count_ <= 31 leaves one word per
\* channel: the bits held, in push order, at its high end and below them the
\* bits of the mute byte repeated; with bit_count_ = 0 it leaves an empty
\* buffer.
C24_FinalPadsWithMute ==
    rpc = "done" =>
        /\ rr.bit_count_ = 0 => fin = <<>>
        /\ rr.bit_count_ \in 1..31 =>
               /\ Len(fin) = rr.channel_count_
               /\ \A c \in 1..rr.channel_count_ : fin[c] = PaddedWord(c)

\* final() of a 1-channel ReadRest with mute byte 0x69 that holds the 8
\* bits of 0xA5 left the word 0xA5000001
C24_MutePatternLost ==
    /\ rpc = "done"
    /\ rr.channel_count_ = 1
    /\ rr.mute = 105
    /\ pushed[1] = Bits(165, 8)
    /\ fin = << Bits(165, 8) \o Bits(0, 16) \o Bits(1, 8) >>

\* C22 as stated: between operations the bit_count_ of a ReadRest shared by
\* any number of sources, read one after the other, is within 0..63, so that
\* no bit is shifted out of a 64-bit register before it was emitted.
C22_BitCountBelow64 == rr.bit_count_ \in 0..63

\* six DSF sources were read to their ends with one ReadRest, each ended
\* with a push of 7 bits, and the ReadRest counts 66 bits
C22_BitsShiftedOut ==
    /\ dcount = 6
    /\ is_empty(dsf)
    /\ dres = "ok"
    /\ rr.bit_count_ = 66

\* samples 1..k of a byte of a DSF file, the earliest first: the DSF format
\* stores the earliest sample in the least significant bit
RemainingBits(b, k) == [j \in 1..k |-> (b \div Pow2(j - 1)) % 2]

\* C30 as stated: when k samples per channel remain in a DSF source, with
\* 0 < k < 8, the k remaining bits of each channel are pushed exactly once,
\* and nothing is pushed after them by this read or a later one on the
\* handle.
C30_RemainingBitsPushedOnce ==
    /\ \A n \in 1..Len(dlog) :
           dlog[n].bits < 8 =>
               /\ n = Len(dlog)
               /\ \A c \in 1..dsf.dsd_channel_count_ :
                      dlog[n].got[c] = RemainingBits(dlog[n].input[c], dlog[n].bits)
    /\ (dcount > 0 /\ is_empty(dsf) /\ dsf.dsd_samples_remaining_ \in 1..7) =>
           /\ dlog # <<>>
           /\ dlog[Len(dlog)].bits = dsf.dsd_samples_remaining_

\* C30, the part that holds: a push of fewer than 8 bits is the last push
\* made for the handle, and a source that ends with k samples left, with
\* 0 < k < 8, had a push of k bits
C30_PartialPushIsLast ==
    /\ \A n \in 1..Len(dlog) : dlog[n].bits < 8 => n = Len(dlog)
    /\ (dcount > 0 /\ is_empty(dsf) /\ dsf.dsd_samples_remaining_ \in 1..7) =>
           /\ dlog # <<>>
           /\ dlog[Len(dlog)].bits = dsf.dsd_samples_remaining_

\* a 1-channel source of 11 samples whose bytes are 0x07: the last 3
\* samples are 1, 1, 1 and the push of 3 bits put 0, 0, 0 into the register
C30_PaddingBitsPushed ==
    /\ dsf.dsd_channel_count_ = 1
    /\ Len(dlog) = 2
    /\ dlog[2].bits = 3
    /\ dlog[2].input = <<7>>
    /\ RemainingBits(7, 3) = <<1, 1, 1>>
    /\ dlog[2].got = << <<0, 0, 0>> >>

\* source k is a RIFF file whose data chunk has length zero and the read
\* loop of the upload is through with it: the chunk header was read, no
\* audio byte was, and no read failed
ZeroLengthRead(k) ==
    /\ k < i
    /\ wavs[k].mode_ = "PCM"
    /\ wavs[k].file = <<>>
    /\ wavs[k].pos = 0
    /\ ~wavs[k].fail

\* a Data chunk with audio of source k was handed to client.send
DataSentFor(k) == \E f \in DOMAIN sent : sent[f].role = "data" /\ sent[f].src = k

\* C29 as stated: a RIFF file whose data chunk has length zero yields
\* end-of-stream without error: once it was read the handle reports
\* is_empty(), and the upload sent no Data chunk for it.
C29_ZeroLengthDataEndsStream ==
    \A k \in DOMAIN wavs :
        ZeroLengthRead(k) => is_empty(wavs[k]) /\ ~DataSentFor(k)

\* C29, the part that holds: no Data chunk is sent for such a source
C29_NoDataForZeroLength ==
    \A k \in DOMAIN wavs : ZeroLengthRead(k) => ~DataSentFor(k)

\* the upload of one RIFF file with a zero-length data chunk returned
\* success, sent no Data chunk for it, and the handle does not report
\* end-of-stream
C29_StreamNotEnded ==
    /\ result = MPC_SUCCESS
    /\ Len(wavs) = 1
    /\ ZeroLengthRead(1)
    /\ ~DataSentFor(1)
    /\ ~is_empty(wavs[1])

\* the value of sample a (from 0) of the last read, of wid bytes: the bytes
\* of the file are little-endian in a RIFF file and big-endian in an AIFF file
SourceSample(a, wid) ==
    LET b == SubSeq(plast.in, a * wid + 1, a * wid + wid)
    IN  IF pcm.mode_ = "AIFF"
        THEN Value(Flatten([j \in 1..wid |-> Bits(b[j], 8)]))
        ELSE Value(Flatten([j \in 1..wid |-> Bits(b[wid + 1 - j], 8)]))

\* the 4 bytes of the 32-bit word s << (32 - 8 * wid), the lowest first
ShiftedWord(s, wid) ==
    [j \in 1..4 |-> IF j <= 4 - wid THEN 0 ELSE (s \div (256 ^ (j - 1 - (4 - wid)))) % 256]

C26_ReturnedMatchesConsumed ==
    (pcm.mode_ # "none" /\ pcm.convert_to_2ch_32bit_ /\ plast.ok) =>
        /\ Len(plast.out) <= plast.T
        /\ Len(plast.out) * getFrameSize(pcm.format_) = Len(plast.in) * 8

\* C26, the part that holds: such a read returns at most T bytes
C26_AtMostTarget ==
    (pcm.mode_ # "none" /\ pcm.convert_to_2ch_32bit_ /\ plast.ok) =>
        Len(plast.out) <= plast.T

\* a mono 16-bit RIFF file read with normalization and a target of 12
\* bytes: 3 source bytes were read and 8 bytes returned, and the file goes
\* on in the middle of a sample
C26_SourceByteDropped ==
    /\ pcm.mode_ = "PCM"
    /\ pcm.convert_to_2ch_32bit_
    /\ pcm.format_ = [id |-> "FMT_PCM_SIGNED_16", channel |-> 1]
    /\ plast.T = 12
    /\ Len(plast.in) = 3
    /\ Len(plast.out) = 8
    /\ pcm.pcm_data_remaining_ > 0
    /\ pcm.pos % 2 = 1

C28_ReadsWithinDataChunk ==
    pcm.mode_ # "none" =>
        /\ pcm.pcm_data_remaining_ \in 0..pdecl
        /\ pconsumed <= pdecl
        /\ Len(plast.in) = IF SourceTarget(pcm, plast.T) < plast.before
                           THEN SourceTarget(pcm, plast.T) ELSE plast.before
        /\ pcm.file = <<>> => pconsumed + pcm.pcm_data_remaining_ = pdecl
        /\ is_empty(pcm) =>
               /\ pconsumed = pdecl
               /\ ~pcm.convert_to_2ch_32bit_ => preturned = pdecl

\* a RIFF file whose data chunk declares 7 bytes was read without
\* normalization to its end, and the reads returned 7 bytes
C28_Witness ==
    /\ pcm.mode_ = "PCM"
    /\ ~pcm.convert_to_2ch_32bit_
    /\ pdecl = 7
    /\ pcm.end_of_stream_
    /\ preturned = 7
    /\ pconsumed = 7

-----------------------------------------------------------------------------
(* Properties of the request commands, checked under SessionSpec *)

\* C39: a request command whose receiveMessages returned Timeout returns
\* Success with the session still connected; get_play_status then reports
\* Disconnected, get_current_time -1 and get_tag_list the tags heard.  Of
\* the commands that waited for a reply, those and only those whose wait
\* ended with a socket or receive error return Connection.
C39_TimeoutIsSuccess ==
    (spc = "idle" /\ cmd \in RequestCommands /\ drainCode # "none") =>
        /\ drainCode = MPC_ERROR_TIMEOUT =>
               /\ sresult = MPC_SUCCESS
               /\ connected
               /\ cmd = "get_play_status" => status = MPC_STATUS_DISCONNECTED
               /\ cmd = "get_current_time" => time_seconds = -1
               /\ cmd = "get_tag_list" =>
                      tags = [q \in 1..Len(heard) |-> heard[q].value]
        /\ sresult = MPC_ERROR_CONNECTION <=> drainCode = MPC_ERROR_CONNECTION
        /\ sresult \in {MPC_SUCCESS, MPC_ERROR_CONNECTION}

\* get_tag_list heard Tag=a, its wait then timed out, and it returned
\* Success with the tag a on a session that is still connected
C39_Witness ==
    /\ cmd = "get_tag_list"
    /\ spc = "idle"
    /\ drainCode = MPC_ERROR_TIMEOUT
    /\ heard = <<Hdr("Tag", <<"a">>)>>
    /\ tags = << <<"a">> >>
    /\ sresult = MPC_SUCCESS
    /\ connected

\* C40 as stated: the headers handed to the handler of a request command,
\* which make its result, are headers the host sent in reply to that
\* request, never those of a reply to an earlier one.
C40_OnlyOwnReplies == qused \subseteq {qreq}

\* the first get_play_status timed out, the host's Status=Play for it came
\* afterwards, and the second get_play_status returned Success and Playing
\* from that header
C40_StaleReplyTaken ==
    /\ qreq = 2
    /\ qcmd = "get_play_status"
    /\ qpc = "idle"
    /\ qres = MPC_SUCCESS
    /\ qout.status = MPC_STATUS_PLAYING
    /\ qused = {1}
    /\ qreplies = 1

-----------------------------------------------------------------------------
(* Properties of SendMessage, checked under MsgSpec *)

\* the kind, the flags, the identifier and the sub-header of the message
\* are as the constructor set them
MsgFieldsKept ==
    /\ read1Byte(msg.header, 3) = mkind
    /\ read1Byte(msg.header, 4) = 0
    /\ SubSeq(msg.header, 6, 9) = <<0, 0, 0, 0>>
    /\ Len(msg.frameHeader) = IF mkind = 1 THEN 6 ELSE 1
    /\ \A k \in DOMAIN msg.frameHeader : msg.frameHeader[k] = 0

\* C34 as stated: after any sequence of addData, addString, addHeader and
\* clear the length field of the header is the size of the buffer minus 9,
\* the kind is the one set at construction, flags and identifier are 0 and
\* the bytes of the sub-header are 0.
C34_HeaderMatchesBuffer ==
    /\ read3Byte(msg.header, 0) = (PayloadHeaderSize + msg.baseSize + msg.size) - 9
    /\ MsgFieldsKept

\* C34, the part that holds: the fields other than the length are kept, and
\* the length field is right while the body is shorter than 2^24 bytes
C34_HeaderMatchesBelow16M ==
    /\ MsgFieldsKept
    /\ msg.baseSize + msg.size < 16777216 =>
           read3Byte(msg.header, 0) = msg.baseSize + msg.size

\* two addData of 8388608 bytes each on a SendMessageData: the buffer holds
\* 9 + 1 + 16777216 bytes and the length field says 1
C34_LengthWrapped ==
    /\ mkind = 0
    /\ mops = 2
    /\ msg.size = 16777216
    /\ read3Byte(msg.header, 0) = 1

-----------------------------------------------------------------------------
(* The audio of an upload: what the reads returned against what was sent *)

\* the audio bytes of a Data chunk: its payload behind the 4 bytes of FormatID
AudioOf(f) == SubSeq(f.data, Len(FormatIDBytes) + 1, Len(f.data))

\* the Data chunks handed to the socket, in the order of sending
DataChunks == SelectSeq(sent, LAMBDA f : f.role \in {"data", "tail"} /\ f.ok)

SentAudio == Flatten([k \in 1..Len(DataChunks) |-> AudioOf(DataChunks[k])])

TailSent == \E k \in 1..Len(DataChunks) : DataChunks[k].role = "tail"

\* C33: the audio bytes of the Data chunks sent are, in order, the bytes the
\* reads of the sources returned, followed by the tail of the reassembler:
\* while a source is read the bytes not yet sent are the ones in the send
\* buffer, every byte read from a source is sent before the title of the
\* source, and a finished upload has sent all of them once.  A Data chunk
\* carries at most one second of audio, and a chunk that carries less is the
\* last chunk of its source or the tail chunk.
C33_SentAudioIsReadAudio ==
    /\ IF TailSent
       THEN SentAudio = readlog \o final(rest)
       ELSE \E n \in 0..Len(readlog) : SentAudio = SubSeq(readlog, 1, n)
    /\ pc \in {"read", "flush"} => SentAudio \o buf = readlog
    /\ pc \in {"tag", "final"} => SentAudio = readlog
    /\ result = MPC_SUCCESS => SentAudio = readlog \o final(rest)
    /\ \A k \in 1..Len(DataChunks) :
           /\ Len(AudioOf(DataChunks[k])) <= get1secSize
           /\ (DataChunks[k].role = "data" /\ Len(AudioOf(DataChunks[k])) < get1secSize) =>
                  \A n \in (k + 1)..Len(DataChunks) :
                      ~(DataChunks[n].role = "data" /\ DataChunks[n].src = DataChunks[k].src)

\* a finished upload of two sources that reused the send buffer: a full
\* chunk, a partial chunk of a later source, and the tail chunk
C33_Witness ==
    /\ result = MPC_SUCCESS
    /\ TailSent
    /\ \E k, n \in 1..Len(DataChunks) :
           /\ k < n
           /\ DataChunks[k].role = "data" /\ Len(AudioOf(DataChunks[k])) = get1secSize
           /\ DataChunks[n].role = "data" /\ Len(AudioOf(DataChunks[n])) < get1secSize

-----------------------------------------------------------------------------
(* readPCM on a file of several chunks *)

\* the places of the bytes of the data chunks of a file, in file order
AllData(file) ==
    Flatten([c \in 1..Len(file) |->
                IF file[c].id = "data" THEN [k \in 1..file[c].size |-> <<c, k - 1>>]
                ELSE <<>>])

HasData(chunks) == \E c \in 1..Len(chunks) : chunks[c].id = "data"

\* the size the first data chunk of chunks declares
FirstDataSize(chunks) ==
    chunks[CHOOSE c \in 1..Len(chunks) :
               chunks[c].id = "data" /\ \A d \in 1..(c - 1) : chunks[d].id # "data"].size

\* C35: a read made with pcm_data_remaining_ 0 skips the chunks that are not
\* data chunks and goes on with the next data chunk when there is one: it
\* returns the first bytes of that chunk, as many as asked for and declared,
\* and does not end the stream.  It ends the stream, with an empty buffer,
\* only when no data chunk is left.  The bytes returned are those of the
\* data chunks in file order, all of them once the stream has ended.
C35_ScanGoesOnWithNextData ==
    /\ \E n \in 0..Len(AllData(kfile)) : klog = SubSeq(AllData(kfile), 1, n)
    /\ kwav.end_of_stream_ => klog = AllData(kfile)
    /\ (klast.T > 0 /\ klast.before = 0 /\ HasData(klast.left)) =>
           /\ ~klast.eos
           /\ Len(klast.buffer) = Min(klast.T, FirstDataSize(klast.left))
    /\ klast.eos => (klast.before = 0 /\ ~HasData(klast.left) /\ klast.buffer = <<>>)

\* a file of a data chunk, another chunk and a second data chunk, read to
\* the end of the stream
C35_Witness ==
    /\ Len(kfile) = 3
    /\ kfile[1].id = "data" /\ kfile[1].size > 0
    /\ kfile[2].id = "LIST" /\ kfile[2].size > 0
    /\ kfile[3].id = "data" /\ kfile[3].size > 0
    /\ kwav.end_of_stream_
    /\ klog = AllData(kfile)

-----------------------------------------------------------------------------
(* readDSF: the end of the reads *)

-----------------------------------------------------------------------------
(* readDFF: the buffer against the words ReadRest::full emitted *)

\* the bytes of a buffer that ReadRest::full wrote
Produced(buffer) == SelectSeq(buffer, LAMBDA b : b[1] = -1)

\* C37 as stated: the buffer a read of a DSDIFF source returns holds 4 x
\* channels bytes for every word full() emitted during the call and nothing
\* else, so every byte the reads of an upload returned was written by full()
C37_ReturnedBytesProduced ==
    wavformat = "DSD" => Produced(readlog) = readlog

\* a DSDIFF source whose DSD chunk holds 2 bytes: the read returns a buffer
\* of 2 bytes, full() emitted nothing, and the 2 bytes are sent as audio
C37_UnwrittenBytesSent ==
    /\ wavformat = "DSD"
    /\ \E k \in 1..Len(DataChunks) :
           /\ Len(AudioOf(DataChunks[k])) = 2
           /\ Produced(AudioOf(DataChunks[k])) = <<>>

-----------------------------------------------------------------------------
(* The counters of the DSDIFF walk *)

\* C38 as stated: no subtraction of the walk wraps below 0; inside a chunk
\* read_reset <= current_size <= chunk_size, and inside the DSD chunk
\* read_reset = current_size.  (A chunk whose declared size exceeds what is
\* left of the form makes the pass fail, line 1119.)
C38_CountersNeverUnderflow ==
    dpc \in {"top", "prop", "data", "end"} =>
        /\ dwrap = "none"
        /\ dpc \in {"prop", "data"} =>
               (dff.read_reset <= dff.current_size /\ dff.current_size <= dff.chunk_size)
        /\ dpc = "data" => dff.read_reset = dff.current_size

\* C38, the part that holds: inside the DSD chunk read_reset = current_size
\* <= chunk_size as long as no subtraction has wrapped
C38_DataCountersAgree ==
    (dpc = "data" /\ dwrap = "none") =>
        (dff.read_reset = dff.current_size /\ dff.current_size <= dff.chunk_size)

\* a PROP chunk with fewer than 4 bytes left: current_size -= 4 at line 1139
\* wrapped, the walk goes on in the PROP loop with current_size > chunk_size
C38_PropCounterWrapped ==
    /\ dpc = "prop"
    /\ dwrap = "1139"
    /\ dff.current_size > dff.chunk_size

-----------------------------------------------------------------------------
(* UTF-16 text frames *)

\* the code points of a UTF-16 string: a high surrogate and the low
\* surrogate behind it are one code point
RECURSIVE CodePoints(_)
CodePoints(str) ==
    IF str = <<>> THEN <<>>
    ELSE IF Len(str) >= 2 /\ IsU16HighSurrogate(str[1]) /\ IsU16LowSurrogate(str[2])
    THEN <<65536 + (str[1] - 55296) * 1024 + (str[2] - 56320)>>
             \o CodePoints(SubSeq(str, 3, Len(str)))
    ELSE <<Head(str)>> \o CodePoints(Tail(str))

\* the UTF-8 encoding of a code point
Utf8(cp) ==
    IF cp < 128 THEN <<cp>>
    ELSE IF cp < 2048 THEN <<192 + (cp \div 64), 128 + (cp % 64)>>
    ELSE IF cp < 65536
    THEN <<224 + (cp \div 4096), 128 + ((cp \div 64) % 64), 128 + (cp % 64)>>
    ELSE <<240 + (cp \div 262144), 128 + ((cp \div 4096) % 64),
           128 + ((cp \div 64) % 64), 128 + (cp % 64)>>

\* a string in which every surrogate is part of a pair
Paired(str) ==
    \A k \in 1..Len(str) :
        /\ IsU16HighSurrogate(str[k]) => (k < Len(str) /\ IsU16LowSurrogate(str[k + 1]))
        /\ IsU16LowSurrogate(str[k]) => (k > 1 /\ IsU16HighSurrogate(str[k - 1]))

\* C32 as stated: the decoded text is the UTF-8 encoding of the code points
\* of the frame, a surrogate pair being the one code point
\* 0x10000 + (high - 0xD800) * 0x400 + (low - 0xDC00) in 4 bytes and a unit
\* of the BMP its own code point in 1 to 3 bytes
C32_DecodedWithSurrogatePairs ==
    (u8out # <<-1>> /\ Paired(U16Of(uinfo))) =>
        u8out = Flatten([k \in 1..Len(CodePoints(U16Of(uinfo))) |->
                            Utf8(CodePoints(U16Of(uinfo))[k])])

\* C32, the part that holds: a frame without surrogates is decoded unit by
\* unit to the UTF-8 encoding of each
C32_BmpUnitsDecoded ==
    (u8out # <<-1>> /\ \A k \in 1..Len(U16Of(uinfo)) :
                           ~IsU16HighSurrogate(U16Of(uinfo)[k])
                           /\ ~IsU16LowSurrogate(U16Of(uinfo)[k])) =>
        u8out = Flatten([k \in 1..Len(U16Of(uinfo)) |-> Utf8(U16Of(uinfo)[k])])

\* the frame D83D DE00 (U+1F600) is decoded to the 6 bytes ED A0 BD ED B8 80,
\* each surrogate encoded by itself, not to F0 9F 98 80
C32_SurrogatesEncodedApart ==
    /\ U16Of(uinfo) = <<55357, 56832>>
    /\ u8out = <<237, 160, 189, 237, 184, 128>>

-----------------------------------------------------------------------------
(* Title and track index after WAV::open *)

\* the number the leading one or two digits of str spell, 0 if str does not
\* begin with a digit
LeadingDigits(str) ==
    IF str = <<>> \/ ~IsDigit(str[1]) THEN 0
    ELSE IF Len(str) >= 2 /\ IsDigit(str[2])
    THEN DigitVal(str[1]) * 10 + DigitVal(str[2])
    ELSE DigitVal(str[1])

\* C31 as stated: after a successful open of a file of any container, a
\* file without title metadata has the stem of its name as title, and a file
\* without track metadata has as index the leading digits of its title, else
\* those of the stem, else 0
C31_TitleAndIndexFallback ==
    oinfo # NotOpened =>
        /\ ofile.title = <<>> => oinfo.title = ofile.stem
        /\ ofile.track = 0 =>
               oinfo.index = IF LeadingDigits(ofile.title) # 0
                             THEN LeadingDigits(ofile.title)
                             ELSE LeadingDigits(ofile.stem)

\* C31, the part that holds: for the containers other than M4A the title
\* falls back to the stem, and the index to the leading digits of a title or
\* a stem of at least 2 characters
C31_FallbackOutsideM4A ==
    (oinfo # NotOpened /\ ofile.container # "M4A") =>
        /\ ofile.title = <<>> => oinfo.title = ofile.stem
        /\ (ofile.track = 0 /\ Len(ofile.title) # 1 /\ Len(ofile.stem) # 1) =>
               oinfo.index = IF LeadingDigits(ofile.title) # 0
                             THEN LeadingDigits(ofile.title)
                             ELSE LeadingDigits(ofile.stem)

\* an M4A file without title and track metadata, named "12b.m4a": after the
\* open title() is empty and index() is 0
C31_M4AWithoutFallback ==
    /\ ofile.container = "M4A"
    /\ ofile.title = <<>> /\ ofile.track = 0
    /\ ofile.stem = <<"1", "2", "b">>
    /\ oinfo # NotOpened
    /\ oinfo.title = <<>>
    /\ oinfo.index = 0

=============================================================================
